---- MODULE Spec2Model ----
(***************************************************************************)
(* CAD-Analysis: floor plan -> usable areas -> genetic block placement ->  *)
(* post-processing -> pathway generation -> analysis result.               *)
(*                                                                         *)
(* Spec is the pipeline on a family of floor plans; SpecRepeat calls       *)
(* optimizePlacement twice; SpecElite runs it with a population that has   *)
(* an elite; SpecSpacing runs optimizeSpacing on two blocks; SpecCorridor  *)
(* runs generateCorridors step by step on regular layouts; SpecCompaction  *)
(* runs optimizeCorridorNetwork on given pathways; SpecSimplify applies    *)
(* simplifyPath to point lists; SpecApp is the CADAnalysisApp component;   *)
(* SpecFacing runs generateCorridors on pairs of blocks with several       *)
(* pathway widths; SpecPostProcess runs postProcessConfiguration step by   *)
(* step on overlapping blocks; SpecMutate and SpecBreed run one generation *)
(* of the genetic search on two configurations; SpecSeed runs the pipeline *)
(* on a plan with two usable areas.                                        *)
(*                                                                         *)
(* Lengths are whole millimetres, areas whole square millimetres.  A JS    *)
(* number that may be NaN is a record [nan, val].  Scores are kept in      *)
(* hundredths.  Math.random() is a draw in thousandths (0..999).  Every    *)
(* position object of the optimizer lives in `heap`, so that the aliasing  *)
(* created by array spreads and object spreads is kept.                    *)
(***************************************************************************)
EXTENDS Integers, Sequences, FiniteSets, TLC

VARIABLES
    floorPlan,       \* the FloorPlan handed to IlotOptimizer / CorridorGenerator
    geneticConfig,   \* IlotOptimizer.geneticConfig
    pc,              \* position of the running computation
    usableAreas,     \* result of calculateAdvancedUsableAreas
    heap,            \* position objects: reference -> [x, y]
    uuidSeed,        \* number of identifiers handed out by uuidv4 so far
    population,      \* geneticAlgorithmOptimization: population
    fitnessScores,   \* geneticAlgorithmOptimization: fitnessScores (sorted)
    nextPopulation,  \* geneticAlgorithmOptimization: nextPopulation
    offspring,       \* geneticAlgorithmOptimization: offspring
    generation,      \* geneticAlgorithmOptimization: generation
    bestFitness,     \* geneticAlgorithmOptimization: bestFitness
    bestIndividual,  \* geneticAlgorithmOptimization: bestIndividual
    ilotData,        \* blocks returned by optimizePlacement
    corridorData,    \* pathways (working list, then the returned list)
    analysisResult,  \* CADAnalysisApp: analysisResult
    points,          \* input of simplifyPath
    simplified,      \* output of simplifyPath
    firstRun,        \* blocks returned by an earlier optimizePlacement call
    uploadedFile,    \* CADAnalysisApp: uploadedFile (0 is null)
    floorPlanData,   \* CADAnalysisApp: floorPlanData
    currentStep,     \* CADAnalysisApp: currentStep
    processing,      \* CADAnalysisApp: processing
    parsing,         \* file of the processStep(0) call that awaits the parser (0: none)
    maxIterations,   \* the argument of the optimizePlacement call
    iter,            \* optimizeSpacing: iter
    corridorConfig   \* CADAnalysisApp: corridorConfig, handed to CorridorGenerator

vars == <<floorPlan, geneticConfig, pc, usableAreas, heap, uuidSeed, population,
          fitnessScores, nextPopulation, offspring, generation, bestFitness,
          bestIndividual, ilotData, corridorData, analysisResult, points,
          simplified, firstRun, uploadedFile, floorPlanData, currentStep, processing,
          parsing, maxIterations, iter, corridorConfig>>

-----------------------------------------------------------------------------
(* Bounds of the model *)

PopulationSize == 1
MaxGenerations == 2

-----------------------------------------------------------------------------
(* Arithmetic *)

Abs(n) == IF n < 0 THEN -n ELSE n

Min(a, b) == IF a < b THEN a ELSE b

Max(a, b) == IF a > b THEN a ELSE b

CeilDiv(a, b) == -((-a) \div b)

RECURSIVE SqrtIter(_, _, _)
SqrtIter(n, lo, hi) ==
    IF lo >= hi THEN lo
    ELSE LET mid == (lo + hi + 1) \div 2
         IN IF mid * mid <= n THEN SqrtIter(n, mid, hi) ELSE SqrtIter(n, lo, mid - 1)

\* Math.sqrt, rounded down to a whole number
Sqrt(n) == SqrtIter(n, 0, 46340)

\* Math.ceil(Math.sqrt(n))
CeilSqrt(n) == LET s == Sqrt(n) IN IF s * s = n THEN s ELSE s + 1

RECURSIVE SeqSum(_)
SeqSum(s) == IF s = <<>> THEN 0 ELSE Head(s) + SeqSum(Tail(s))

\* Math.min(...) and Math.max(...) of a non-empty collection
SetMin(S) == CHOOSE x \in S : \A y \in S : x <= y

SetMax(S) == CHOOSE x \in S : \A y \in S : x >= y

Range(s) == {s[i] : i \in DOMAIN s}

\* a JS number that is a number, and the JS value NaN
Num(v) == [nan |-> FALSE, val |-> v]

NaN == [nan |-> TRUE, val |-> 0]

Pt(x, y) == [x |-> x, y |-> y]

-----------------------------------------------------------------------------
(* IlotOptimizer: geometry utilities *)

calculateDistance(p1, p2) ==
    Sqrt((p2.x - p1.x) * (p2.x - p1.x) + (p2.y - p1.y) * (p2.y - p1.y))

\* ray casting; the quotient of the source is compared exactly
pointInPolygon(point, polygon) ==
    LET n == Len(polygon)
        Prev(i) == IF i = 1 THEN n ELSE i - 1
        Crosses(i) ==
            LET pi == polygon[i]
                pj == polygon[Prev(i)]
                den == pj.y - pi.y
                num == (pj.x - pi.x) * (point.y - pi.y)
            IN /\ (pi.y > point.y) # (pj.y > point.y)
               /\ IF den > 0 THEN (point.x - pi.x) * den < num
                  ELSE (point.x - pi.x) * den > num
    IN Cardinality({i \in 1..n : Crosses(i)}) % 2 = 1

calculateBounds(pts) ==
    IF Len(pts) = 0 THEN [minX |-> 0, maxX |-> 0, minY |-> 0, maxY |-> 0]
    ELSE [minX |-> SetMin({pts[i].x : i \in DOMAIN pts}),
          maxX |-> SetMax({pts[i].x : i \in DOMAIN pts}),
          minY |-> SetMin({pts[i].y : i \in DOMAIN pts}),
          maxY |-> SetMax({pts[i].y : i \in DOMAIN pts})]

calculatePolygonArea(pts) ==
    IF Len(pts) < 3 THEN 0
    ELSE LET n == Len(pts)
             Term(i) == LET j == (i % n) + 1
                        IN pts[i].x * pts[j].y - pts[j].x * pts[i].y
         IN Abs(SeqSum([i \in 1..n |-> Term(i)])) \div 2

RectPolygon(minX, minY, maxX, maxY) ==
    <<Pt(minX, minY), Pt(maxX, minY), Pt(maxX, maxY), Pt(minX, maxY)>>

-----------------------------------------------------------------------------
(* Floor plans *)

\* usableArea as CADProcessor derives it: totalArea * 0.85
UsableShare(totalArea) == (totalArea \div 100) * 85

MakePlan(name, w, h, walls, restricted) ==
    [name |-> name,
     bounds |-> RectPolygon(0, 0, w, h),
     walls |-> walls,
     restrictedAreas |-> restricted,
     totalArea |-> w * h,
     usableArea |-> UsableShare(w * h)]

Wall(x1, y1, x2, y2, t) == [start |-> Pt(x1, y1), end |-> Pt(x2, y2), thickness |-> t]

\* an open hall without walls
PlanOpen == MakePlan("open", 6350, 4100, <<>>, <<>>)

\* the same hall with one short wall standing in from the top edge
PlanStub == MakePlan("stub", 6350, 4100, <<Wall(3150, 0, 3150, 1000, 100)>>, <<>>)

\* a small room without walls whose sides are not multiples of the grid size
PlanSmall == MakePlan("small", 2120, 2000, <<>>, <<>>)

\* a room without walls below the 4 m2 minimum
PlanTiny == MakePlan("tiny", 1000, 1000, <<>>, <<>>)

\* a room without walls of exactly 4 m2
PlanSquare == MakePlan("square", 2000, 2000, <<>>, <<>>)

\* a drawing with a single horizontal wall: the bounds collapse to a line
PlanLine == MakePlan("line", 5000, 0, <<Wall(0, 0, 5000, 0, 200)>>, <<>>)

Plans == {PlanOpen, PlanStub, PlanSmall, PlanTiny, PlanSquare, PlanLine}

\* two halls side by side, divided by a wall from edge to edge
PlanDivided ==
    MakePlan("divided", 15200, 4100, <<Wall(7600, 0, 7600, 4100, 100)>>, <<>>)

-----------------------------------------------------------------------------
(* IlotOptimizer.calculateAdvancedUsableAreas *)

gridSize == 50

\* offsets (i, j) with Math.sqrt(i*i + j*j) <= r
Disk(r) == {o \in (-r..r) \X (-r..r) : o[1] * o[1] + o[2] * o[2] <= r * r}

GridCells(width, height) == (0..(width - 1)) \X (0..(height - 1))

\* cells visited by the Bresenham walk of markAdvancedLineInGrid
RECURSIVE BresenhamCells(_, _, _, _, _, _, _, _, _)
BresenhamCells(x, y, x2, y2, dx, dy, sx, sy, err) ==
    {<<x, y>>} \cup
    IF x = x2 /\ y = y2 THEN {}
    ELSE LET e2 == 2 * err
             stepX == e2 > -dy
             stepY == e2 < dx
             err1 == IF stepX THEN err - dy ELSE err
             err2 == IF stepY THEN err1 + dx ELSE err1
         IN BresenhamCells(IF stepX THEN x + sx ELSE x, IF stepY THEN y + sy ELSE y,
                           x2, y2, dx, dy, sx, sy, err2)

\* cells set to false by markAdvancedLineInGrid
markAdvancedLineInGrid(width, height, start, end, thickness, offsetX, offsetY) ==
    LET x1 == (start.x - offsetX) \div gridSize
        y1 == (start.y - offsetY) \div gridSize
        x2 == (end.x - offsetX) \div gridSize
        y2 == (end.y - offsetY) \div gridSize
        thicknessCells == CeilDiv(thickness, gridSize)
        dx == Abs(x2 - x1)
        dy == Abs(y2 - y1)
        sx == IF x1 < x2 THEN 1 ELSE -1
        sy == IF y1 < y2 THEN 1 ELSE -1
        line == BresenhamCells(x1, y1, x2, y2, dx, dy, sx, sy, dx - dy)
    IN {c \in UNION {{<<l[1] + o[1], l[2] + o[2]>> : o \in Disk(thicknessCells)} : l \in line} :
            c[2] >= 0 /\ c[2] < height /\ c[1] >= 0 /\ c[1] < width}

expandPolygon(polygon, buffer) ==
    LET b == calculateBounds(polygon)
    IN RectPolygon(b.minX - buffer, b.minY - buffer, b.maxX + buffer, b.maxY + buffer)

\* cells set to false by markRestrictedAreaInGrid
markRestrictedAreaInGrid(width, height, polygon, offsetX, offsetY, buffer) ==
    LET expandedPolygon == expandPolygon(polygon, buffer)
    IN {c \in GridCells(width, height) :
            pointInPolygon(Pt(c[1] * gridSize + offsetX, c[2] * gridSize + offsetY),
                           expandedPolygon)}

\* cells that are false after applyAccessibilityClearances
applyAccessibilityClearances(width, height, blocked) ==
    LET clearanceCells == CeilDiv(1200, gridSize)
        disk == Disk(clearanceCells)
    IN {c \in UNION {{<<b[1] + o[1], b[2] + o[2]>> : o \in disk} : b \in blocked} :
            c[2] >= 0 /\ c[2] < height /\ c[1] >= 0 /\ c[1] < width}

\* cells set to false by the marking passes of calculateAdvancedUsableAreas:
\* walls with their thickness and restricted areas with their buffer; the plans
\* considered carry no doors and no windows
MarkedCells(plan) ==
    LET b == calculateBounds(plan.bounds)
        width == CeilDiv(b.maxX - b.minX, gridSize)
        height == CeilDiv(b.maxY - b.minY, gridSize)
        walls == UNION {markAdvancedLineInGrid(width, height, plan.walls[i].start,
                            plan.walls[i].end, plan.walls[i].thickness, b.minX, b.minY)
                        : i \in DOMAIN plan.walls}
        restricted == UNION {markRestrictedAreaInGrid(width, height,
                            plan.restrictedAreas[i].bounds, b.minX, b.minY, 1000)
                        : i \in DOMAIN plan.restrictedAreas}
    IN walls \cup restricted

\* cells of the grid that are false before the flood fill
OccupiedCells(plan) ==
    LET b == calculateBounds(plan.bounds)
        width == CeilDiv(b.maxX - b.minX, gridSize)
        height == CeilDiv(b.maxY - b.minY, gridSize)
    IN applyAccessibilityClearances(width, height, MarkedCells(plan))

Neighbours8(c) ==
    {<<c[1] + 1, c[2]>>, <<c[1] - 1, c[2]>>, <<c[1], c[2] + 1>>, <<c[1], c[2] - 1>>,
     <<c[1] + 1, c[2] + 1>>, <<c[1] - 1, c[2] - 1>>, <<c[1] + 1, c[2] - 1>>,
     <<c[1] - 1, c[2] + 1>>}

\* the cells pushed to `cells` by advancedFloodFill
RECURSIVE FloodCells(_, _, _)
FloodCells(frontier, seen, free) ==
    IF frontier = {} THEN seen
    ELSE LET next == {n \in UNION {Neighbours8(c) : c \in frontier} :
                          n \in free /\ n \notin seen}
         IN FloodCells(next, {c \in free : c \in seen \/ c \in next}, free)

\* variant of advancedFloodFill that takes the low corner of the last cell as
\* the upper corner of the rectangle
advancedFloodFillLowCorner(cells, offsetX, offsetY) ==
    LET xs == {c[1] : c \in cells}
        ys == {c[2] : c \in cells}
    IN RectPolygon(SetMin(xs) * gridSize + offsetX, SetMin(ys) * gridSize + offsetY,
                   SetMax(xs) * gridSize + offsetX, SetMax(ys) * gridSize + offsetY)

\* bounding rectangle returned by advancedFloodFill for a component
advancedFloodFill(cells, offsetX, offsetY) ==
    LET xs == {c[1] : c \in cells}
        ys == {c[2] : c \in cells}
    IN RectPolygon(SetMin(xs) * gridSize + offsetX, SetMin(ys) * gridSize + offsetY,
                   (SetMax(xs) + 1) * gridSize + offsetX,
                   (SetMax(ys) + 1) * gridSize + offsetY)

\* first free cell in the row-major scan of gridToAdvancedPolygons
FirstCell(free) ==
    LET y == SetMin({c[2] : c \in free})
    IN <<SetMin({c[1] : c \in {d \in free : d[2] = y}}), y>>

RECURSIVE gridToAdvancedPolygons(_, _, _)
gridToAdvancedPolygons(free, offsetX, offsetY) ==
    IF free = {} THEN <<>>
    ELSE LET start == FirstCell(free)
             cells == FloodCells({start}, {start}, free)
         IN <<advancedFloodFill(cells, offsetX, offsetY)>>
                \o gridToAdvancedPolygons({c \in free : c \notin cells}, offsetX, offsetY)

calculateAdvancedUsableAreas(plan) ==
    LET b == calculateBounds(plan.bounds)
        width == CeilDiv(b.maxX - b.minX, gridSize)
        height == CeilDiv(b.maxY - b.minY, gridSize)
        occupied == OccupiedCells(plan)
        free == {c \in GridCells(width, height) : c \notin occupied}
        areas == gridToAdvancedPolygons(free, b.minX, b.minY)
    IN SelectSeq(areas, LAMBDA area : calculatePolygonArea(area) > 4000000)

-----------------------------------------------------------------------------
(* IlotOptimizer: seed layouts (generateRandomConfiguration) *)

ilotSizes ==
    <<[type |-> "small", width |-> 2000, height |-> 2500, area |-> 5000000, minClearance |-> 800],
      [type |-> "medium", width |-> 2500, height |-> 3000, area |-> 7500000, minClearance |-> 900],
      [type |-> "large", width |-> 3000, height |-> 4000, area |-> 12000000, minClearance |-> 1000]>>

selectOptimalIlotSize(width, height) ==
    LET area == width * height
    IN IF area <= 6000000 THEN ilotSizes[1]
       ELSE IF area <= 10000000 THEN ilotSizes[2]
       ELSE ilotSizes[3]

\* the object literal pushed to `ilots`; the identifier is given on allocation
NewIlot(position, width, height) ==
    [id |-> 0, position |-> position, width |-> width, height |-> height,
     area |-> width * height, type |-> selectOptimalIlotSize(width, height).type,
     clearance |-> selectOptimalIlotSize(width, height).minClearance,
     accessibility |-> TRUE]

\* the two nested loops of createOptimizedHorizontalRows, from (row, col) on
RECURSIVE HorizontalRowsFrom(_, _, _, _, _, _)
HorizontalRowsFrom(area, bounds, ilots, targetIlots, row, col) ==
    LET ilotSpacing == 800
        availableHeight == bounds.maxY - bounds.minY
        ilotHeight == 2500
        rowSpacing == ilotHeight + 1200 + 400
        maxRows == availableHeight \div rowSpacing
    IN IF ~(row < maxRows /\ Len(ilots) < targetIlots) THEN ilots
       ELSE
        LET y == bounds.minY + (row * rowSpacing) + rowSpacing \div 2
            ilotsPerRow == Min(6, CeilDiv(targetIlots, maxRows))
            availableWidth == bounds.maxX - bounds.minX
            totalSpacing == (ilotsPerRow - 1) * ilotSpacing
            capped == (availableWidth - totalSpacing) >= 3000 * ilotsPerRow
            ilotWidth == Min(3000, (availableWidth - totalSpacing) \div ilotsPerRow)
            x == IF capped THEN bounds.minX + col * (3000 + ilotSpacing) + 1500
                 ELSE bounds.minX + col * ilotSpacing
                      + ((2 * col + 1) * (availableWidth - totalSpacing)) \div (2 * ilotsPerRow)
            position == Pt(x, y)
        IN IF ilotWidth < 1500
             THEN HorizontalRowsFrom(area, bounds, ilots, targetIlots, row + 1, 0)
           ELSE IF ~(col < ilotsPerRow /\ Len(ilots) < targetIlots)
             THEN HorizontalRowsFrom(area, bounds, ilots, targetIlots, row + 1, 0)
           ELSE HorizontalRowsFrom(area, bounds,
                    IF pointInPolygon(position, area)
                    THEN Append(ilots, NewIlot(position, ilotWidth, ilotHeight))
                    ELSE ilots,
                    targetIlots, row, col + 1)

createOptimizedHorizontalRows(area, bounds, ilots, targetIlots) ==
    HorizontalRowsFrom(area, bounds, ilots, targetIlots, 0, 0)

\* the two nested loops of createOptimizedVerticalColumns, from (col, row) on
RECURSIVE VerticalColumnsFrom(_, _, _, _, _, _)
VerticalColumnsFrom(area, bounds, ilots, targetIlots, col, row) ==
    LET ilotSpacing == 800
        availableWidth == bounds.maxX - bounds.minX
        ilotWidth == 2500
        colSpacing == ilotWidth + 1200 + 400
        maxCols == availableWidth \div colSpacing
    IN IF ~(col < maxCols /\ Len(ilots) < targetIlots) THEN ilots
       ELSE
        LET x == bounds.minX + (col * colSpacing) + colSpacing \div 2
            ilotsPerCol == Min(6, CeilDiv(targetIlots, maxCols))
            availableHeight == bounds.maxY - bounds.minY
            totalSpacing == (ilotsPerCol - 1) * ilotSpacing
            capped == (availableHeight - totalSpacing) >= 3500 * ilotsPerCol
            ilotHeight == Min(3500, (availableHeight - totalSpacing) \div ilotsPerCol)
            y == IF capped THEN bounds.minY + row * (3500 + ilotSpacing) + 1750
                 ELSE bounds.minY + row * ilotSpacing
                      + ((2 * row + 1) * (availableHeight - totalSpacing)) \div (2 * ilotsPerCol)
            position == Pt(x, y)
        IN IF ilotHeight < 1500
             THEN VerticalColumnsFrom(area, bounds, ilots, targetIlots, col + 1, 0)
           ELSE IF ~(row < ilotsPerCol /\ Len(ilots) < targetIlots)
             THEN VerticalColumnsFrom(area, bounds, ilots, targetIlots, col + 1, 0)
           ELSE VerticalColumnsFrom(area, bounds,
                    IF pointInPolygon(position, area)
                    THEN Append(ilots, NewIlot(position, ilotWidth, ilotHeight))
                    ELSE ilots,
                    targetIlots, col, row + 1)

createOptimizedVerticalColumns(area, bounds, ilots, targetIlots) ==
    VerticalColumnsFrom(area, bounds, ilots, targetIlots, 0, 0)

\* the two nested loops of createOptimizedGridPattern, from (row, col) on
RECURSIVE GridPatternFrom(_, _, _, _, _, _)
GridPatternFrom(area, bounds, ilots, targetIlots, row, col) ==
    LET minIlotSize == 2000
        gridCells == CeilSqrt(targetIlots)
        spanX == bounds.maxX - bounds.minX
        spanY == bounds.maxY - bounds.minY
    IN IF ~(row < gridCells /\ Len(ilots) < targetIlots) THEN ilots
       ELSE IF ~(col < gridCells /\ Len(ilots) < targetIlots)
         THEN GridPatternFrom(area, bounds, ilots, targetIlots, row + 1, 0)
       ELSE
        LET x == bounds.minX + ((2 * col + 1) * spanX) \div (2 * gridCells)
            y == bounds.minY + ((2 * row + 1) * spanY) \div (2 * gridCells)
            position == Pt(x, y)
            maxWidth == Min(3000, spanX \div gridCells - 1200)
            maxHeight == Min(3000, spanY \div gridCells - 1200)
        IN GridPatternFrom(area, bounds,
               IF /\ pointInPolygon(position, area)
                  /\ maxWidth >= minIlotSize /\ maxHeight >= minIlotSize
               THEN Append(ilots, NewIlot(position, maxWidth, maxHeight))
               ELSE ilots,
               targetIlots, row, col + 1)

createOptimizedGridPattern(area, bounds, ilots, targetIlots) ==
    GridPatternFrom(area, bounds, ilots, targetIlots, 0, 0)

\* usableAreas.forEach of generateRandomConfiguration, from area k on
RECURSIVE ConfigurationFrom(_, _, _)
ConfigurationFrom(areas, ilots, k) ==
    IF k > Len(areas) THEN ilots
    ELSE
      LET area == areas[k]
          areaSize == calculatePolygonArea(area)
          bounds == calculateBounds(area)
          areaWidth == bounds.maxX - bounds.minX
          areaHeight == bounds.maxY - bounds.minY
          targetIlots == areaSize \div 8000000
          placed ==
            IF ~(areaSize > 20000000) THEN ilots
            ELSE IF 2 * areaWidth > 3 * areaHeight
              THEN createOptimizedHorizontalRows(area, bounds, ilots, targetIlots)
            ELSE IF 2 * areaHeight > 3 * areaWidth
              THEN createOptimizedVerticalColumns(area, bounds, ilots, targetIlots)
            ELSE createOptimizedGridPattern(area, bounds, ilots, targetIlots)
      IN ConfigurationFrom(areas, placed, k + 1)

\* variant of generateRandomConfiguration without the 20 m2 guard: one block of
\* the smallest class in the middle of every usable area
generateRandomConfigurationUnguarded(areas) ==
    [k \in DOMAIN areas |->
        LET bounds == calculateBounds(areas[k])
        IN NewIlot(Pt((bounds.minX + bounds.maxX) \div 2, (bounds.minY + bounds.maxY) \div 2),
                   2000, 2500)]

\* the blocks of one individual, positions by value, identifiers not yet given
generateRandomConfiguration(areas) == ConfigurationFrom(areas, <<>>, 1)

-----------------------------------------------------------------------------
(* IlotOptimizer: fitness.  Scores are in hundredths of a point. *)

\* the blocks of an individual with their position objects read from the heap
Resolve(individual, h) ==
    [i \in DOMAIN individual |-> [individual[i] EXCEPT !.position = h[@]]]

\* 100 * a / b for areas, in hundredths
AreaPercent(a, b) == ((a \div 1000) * 1000) \div Max(1, b \div 10000)

calculateSpaceUtilization(plan, ilots) ==
    LET totalIlotArea == SeqSum([i \in DOMAIN ilots |-> ilots[i].area])
    IN IF plan.usableArea = 0
       THEN (IF totalIlotArea = 0 THEN NaN ELSE Num(10000))
       ELSE Num(Min(10000, AreaPercent(totalIlotArea, plan.usableArea)))

distancePointToLine(point, lineStart, lineEnd) ==
    LET A == point.x - lineStart.x
        B == point.y - lineStart.y
        C == lineEnd.x - lineStart.x
        D == lineEnd.y - lineStart.y
        dot == A * C + B * D
        lenSq == C * C + D * D
    IN IF lenSq = 0 \/ dot < 0 THEN calculateDistance(point, lineStart)
       ELSE IF dot > lenSq THEN calculateDistance(point, lineEnd)
       ELSE Abs(A * D - B * C) \div Max(1, Sqrt(lenSq))

isPointAccessible(plan, point, currentIlot, allIlots) ==
    LET minClearance == 1200
    IN /\ \A w \in DOMAIN plan.walls :
            ~(distancePointToLine(point, plan.walls[w].start, plan.walls[w].end) < minClearance)
       /\ \A k \in DOMAIN allIlots :
            \/ allIlots[k].id = currentIlot.id
            \/ LET dx == point.x - allIlots[k].position.x
                   dy == point.y - allIlots[k].position.y
                   twiceRequired == 2 * minClearance + Max(allIlots[k].width, allIlots[k].height)
               IN ~(4 * (dx * dx + dy * dy) < twiceRequired * twiceRequired)

calculateAdvancedAccessibilityScore(plan, ilots) ==
    LET minAccessWidth == 1200
        accessPoints(ilot) ==
            {Pt(ilot.position.x + ilot.width \div 2 + minAccessWidth, ilot.position.y),
             Pt(ilot.position.x - ilot.width \div 2 - minAccessWidth, ilot.position.y),
             Pt(ilot.position.x, ilot.position.y + ilot.height \div 2 + minAccessWidth),
             Pt(ilot.position.x, ilot.position.y - ilot.height \div 2 - minAccessWidth)}
        hasAccess(ilot) ==
            Cardinality({q \in accessPoints(ilot) : isPointAccessible(plan, q, ilot, ilots)}) >= 2
        accessibleIlots == Cardinality({i \in DOMAIN ilots : hasAccess(ilots[i])})
    IN IF Len(ilots) > 0 THEN (accessibleIlots * 10000) \div Len(ilots) ELSE 10000

Pairs(n) == {p \in (1..n) \X (1..n) : p[1] < p[2]}

\* sum of the values of a function over a finite set of its arguments
RECURSIVE SetSum(_, _)
SetSum(S, f) ==
    IF S = {} THEN 0
    ELSE LET x == CHOOSE x \in S : TRUE IN f[x] + SetSum(S \ {x}, f)

calculateAdvancedClearanceScore(ilots) ==
    IF Len(ilots) <= 1 THEN 10000
    ELSE LET score == [p \in Pairs(Len(ilots)) |->
                 LET distance == calculateDistance(ilots[p[1]].position, ilots[p[2]].position)
                     requiredClearance == Max(ilots[p[1]].clearance, ilots[p[2]].clearance)
                     fourMinDistance == 4 * requiredClearance + ilots[p[1]].width + ilots[p[2]].width
                 IN Min(10000, (distance * 20000) \div fourMinDistance)]
         IN SetSum(Pairs(Len(ilots)), score) \div Cardinality(Pairs(Len(ilots)))

\* groupByCoordinate: the groups, as sets of indices, in the order they are opened
RECURSIVE GroupsFrom(_, _, _, _)
GroupsFrom(values, tolerance, used, i) ==
    IF i > Len(values) THEN <<>>
    ELSE IF i \in used THEN GroupsFrom(values, tolerance, used, i + 1)
    ELSE LET group == {i} \cup {k \in DOMAIN values :
                          k \notin used /\ k # i
                          /\ Abs(values[k] - values[i]) <= tolerance}
         IN <<group>> \o GroupsFrom(values, tolerance, used \cup group, i + 1)

groupByCoordinate(ilots, coordinate, tolerance) ==
    GroupsFrom([i \in DOMAIN ilots |-> ilots[i].position[coordinate]], tolerance, {}, 1)

\* coefficient of variation of the block areas, in hundredths of a percent
calculateSizeVariation(ilots) ==
    IF Len(ilots) <= 1 THEN 0
    ELSE LET areas == [i \in DOMAIN ilots |-> ilots[i].area \div 10000]
             mean == SeqSum(areas) \div Len(areas)
             variance == SeqSum([i \in DOMAIN areas |->
                             (areas[i] - mean) * (areas[i] - mean)]) \div Len(areas)
         IN (Sqrt(variance) * 10000) \div Max(1, mean)

calculateLayoutQuality(ilots) ==
    IF Len(ilots) = 0 THEN 0
    ELSE LET tolerance == 500
             horizontalGroups == groupByCoordinate(ilots, "y", tolerance)
             verticalGroups == groupByCoordinate(ilots, "x", tolerance)
             many(groups) == Cardinality({g \in DOMAIN groups : Cardinality(groups[g]) > 1})
             alignmentScore == many(horizontalGroups) * 1000 + many(verticalGroups) * 1000
             regularityScore == Max(0, 10000 - calculateSizeVariation(ilots))
         IN Min(10000, alignmentScore + regularityScore \div 2)

calculateProximityScore(ilots) ==
    IF Len(ilots) <= 1 THEN 10000
    ELSE LET score == [p \in Pairs(Len(ilots)) |->
                 LET distance == calculateDistance(ilots[p[1]].position, ilots[p[2]].position)
                 IN Max(0, 10000 - Abs(distance - 2000) * 2)]
         IN SetSum(Pairs(Len(ilots)), score) \div Cardinality(Pairs(Len(ilots)))

evaluateAdvancedFitness(plan, ilots) ==
    LET spaceUtilization == calculateSpaceUtilization(plan, ilots)
    IN IF spaceUtilization.nan THEN NaN
       ELSE Num((spaceUtilization.val * 25
                 + calculateAdvancedAccessibilityScore(plan, ilots) * 25
                 + calculateAdvancedClearanceScore(ilots) * 20
                 + calculateLayoutQuality(ilots) * 15
                 + calculateProximityScore(ilots) * 15) \div 100)

\* a > b on JS numbers
JsGreater(a, b) == ~a.nan /\ ~b.nan /\ a.val > b.val

-----------------------------------------------------------------------------
(* IlotOptimizer: post-processing *)

\* the four sides of a block, in half millimetres so that width / 2 is exact
getIlotBounds(ilot) ==
    [left |-> 2 * ilot.position.x - ilot.width,
     right |-> 2 * ilot.position.x + ilot.width,
     top |-> 2 * ilot.position.y - ilot.height,
     bottom |-> 2 * ilot.position.y + ilot.height]

ilotsOverlap(ilot1, ilot2) ==
    LET bounds1 == getIlotBounds(ilot1)
        bounds2 == getIlotBounds(ilot2)
    IN ~(\/ bounds1.right < bounds2.left
         \/ bounds2.right < bounds1.left
         \/ bounds1.bottom < bounds2.top
         \/ bounds2.bottom < bounds1.top)

RECURSIVE RemoveOverlappingFrom(_, _, _)
RemoveOverlappingFrom(ilots, nonOverlapping, i) ==
    IF i > Len(ilots) THEN nonOverlapping
    ELSE LET overlaps == \E k \in DOMAIN nonOverlapping :
                            ilotsOverlap(ilots[i], nonOverlapping[k])
         IN RemoveOverlappingFrom(ilots,
                IF overlaps THEN nonOverlapping ELSE Append(nonOverlapping, ilots[i]),
                i + 1)

\* removeOverlappingIlots comparing each block with the block before it in
\* the input alone
removeOverlappingIlotsOfNeighbours(ilots) ==
    LET keep == [i \in DOMAIN ilots |-> i = 1 \/ ~ilotsOverlap(ilots[i], ilots[i - 1])]
        indices == SelectSeq([i \in DOMAIN ilots |-> i], LAMBDA i : keep[i])
    IN [k \in DOMAIN indices |-> ilots[indices[k]]]

removeOverlappingIlots(ilots) == RemoveOverlappingFrom(ilots, <<>>, 1)

\* Math.round(v / size) * size
RoundTo(v, size) == ((2 * v + size) \div (2 * size)) * size

snapToGrid(ilots, size) ==
    [i \in DOMAIN ilots |->
        [ilots[i] EXCEPT !.position = Pt(RoundTo(@.x, size), RoundTo(@.y, size))]]

\* forces * dampening on block `index`, in micrometres; pos holds micrometres
calculateSpacingForces(pos, index) ==
    LET contribution == [k \in DOMAIN pos |->
            LET dx == pos[index].x - pos[k].x
                dy == pos[index].y - pos[k].y
                mx == dx \div 1000
                my == dy \div 1000
                distance == Sqrt(mx * mx + my * my)
                optimalDistance == 2000
            IN IF k = index \/ ~(distance > 0) THEN Pt(0, 0)
               ELSE Pt(((dx \div 100) * (distance - optimalDistance)) \div distance,
                       ((dy \div 100) * (distance - optimalDistance)) \div distance)]
    IN Pt(SeqSum([k \in DOMAIN pos |-> contribution[k].x]),
          SeqSum([k \in DOMAIN pos |-> contribution[k].y]))

\* optimized.forEach of one iteration, from block `index` on, updating in place
RECURSIVE SpacingPassFrom(_, _)
SpacingPassFrom(pos, index) ==
    IF index > Len(pos) THEN pos
    ELSE LET forces == calculateSpacingForces(pos, index)
         IN SpacingPassFrom([pos EXCEPT ![index] = Pt(@.x + forces.x, @.y + forces.y)],
                            index + 1)

RECURSIVE SpacingIterations(_, _)
SpacingIterations(pos, passes) ==
    IF passes = 0 THEN pos ELSE SpacingIterations(SpacingPassFrom(pos, 1), passes - 1)

optimizeSpacing(ilots) ==
    LET iterations == 10
        start == [i \in DOMAIN ilots |->
                     Pt(ilots[i].position.x * 1000, ilots[i].position.y * 1000)]
        final == SpacingIterations(start, iterations)
    IN [i \in DOMAIN ilots |->
           [ilots[i] EXCEPT !.position = Pt((final[i].x + 500) \div 1000,
                                            (final[i].y + 500) \div 1000)]]

postProcessConfiguration(configuration) ==
    optimizeSpacing(snapToGrid(removeOverlappingIlots(configuration), 100))

-----------------------------------------------------------------------------
(* Math.random(): draws in thousandths, one small set per kind of call *)

\* probability tests and index picks
CoinDraws == {40, 980}

\* the adjustment (r - 0.5) * 500 of mutate, along x and along y
OffsetDrawsX == {190, 980}

OffsetDrawsY == {500}

\* the relocation of mutate: area index, x and y
RelocationDraws == {500}

-----------------------------------------------------------------------------
(* IlotOptimizer: genetic algorithm *)

\* usable areas of every plan considered
ExtractedAreas == [p \in Plans |-> calculateAdvancedUsableAreas(p)]

DefaultGeneticConfig(populationSize, maxGenerations) ==
    [populationSize |-> populationSize, maxGenerations |-> maxGenerations,
     mutationRate |-> 100, crossoverRate |-> 700, elitismRate |-> 200]

\* fitnessScores.sort((a, b) => b.fitness - a.fitness): stable insertion of
\* entry e; a NaN difference counts as equal
RECURSIVE InsertByFitness(_, _)
InsertByFitness(sorted, e) ==
    IF sorted = <<>> THEN <<e>>
    ELSE IF JsGreater(e.fitness, sorted[Len(sorted)].fitness)
      THEN Append(InsertByFitness(SubSeq(sorted, 1, Len(sorted) - 1), e), sorted[Len(sorted)])
    ELSE Append(sorted, e)

RECURSIVE SortByFitness(_)
SortByFitness(scores) ==
    IF scores = <<>> THEN <<>>
    ELSE InsertByFitness(SortByFitness(SubSeq(scores, 1, Len(scores) - 1)), scores[Len(scores)])

\* tournamentSelection with its three draws
tournamentSelection(scores, r1, r2, r3) ==
    LET pick(r) == scores[((r * Len(scores)) \div 1000) + 1]
        best1 == pick(r1)
        best2 == IF JsGreater(pick(r2).fitness, best1.fitness) THEN pick(r2) ELSE best1
        best3 == IF JsGreater(pick(r3).fitness, best2.fitness) THEN pick(r3) ELSE best2
    IN best3.individual

\* crossover that takes from the second parent the block before slot i
crossoverOfShiftedParent(parent1, parent2, genes) ==
    [i \in 1..Max(Len(parent1), Len(parent2)) |->
        IF i <= Len(parent1) /\ i <= Len(parent2)
        THEN (IF genes[i] < 500 THEN parent1[i] ELSE parent2[Max(1, i - 1)])
        ELSE IF i <= Len(parent1) THEN parent1[i]
        ELSE parent2[i]]

\* crossover; genes[i] is the draw made for slot i when both parents have it
crossover(parent1, parent2, genes) ==
    [i \in 1..Max(Len(parent1), Len(parent2)) |->
        IF i <= Len(parent1) /\ i <= Len(parent2)
        THEN (IF genes[i] < 500 THEN parent1[i] ELSE parent2[i])
        ELSE IF i <= Len(parent1) THEN parent1[i]
        ELSE parent2[i]]

\* the body of mutated.forEach without the move to a valid area
MutatedPositionNotMoved(position, areas, m) ==
    IF ~(m.coin < 100) THEN position
    ELSE Pt(position.x + ((m.rx - 500) * 500) \div 1000,
            position.y + ((m.ry - 500) * 500) \div 1000)

\* the position object of one block after the body of mutated.forEach
MutatedPosition(position, areas, m) ==
    LET adjustmentRange == 500
        adjusted == Pt(position.x + ((m.rx - 500) * adjustmentRange) \div 1000,
                       position.y + ((m.ry - 500) * adjustmentRange) \div 1000)
        contained == \E a \in DOMAIN areas : pointInPolygon(adjusted, areas[a])
        bounds == calculateBounds(areas[((m.ra * Len(areas)) \div 1000) + 1])
    IN IF ~(m.coin < 100) THEN position
       ELSE IF ~contained /\ Len(areas) > 0
         THEN Pt(bounds.minX + (m.rpx * (bounds.maxX - bounds.minX)) \div 1000,
                 bounds.minY + (m.rpy * (bounds.maxY - bounds.minY)) \div 1000)
       ELSE adjusted

MutationDraws ==
    [coin : CoinDraws, rx : OffsetDrawsX, ry : OffsetDrawsY,
     ra : RelocationDraws, rpx : RelocationDraws, rpy : RelocationDraws]

\* the heap after mutate(individual, usableAreas); m[i] are the draws of block i
mutate(individual, areas, h, m) ==
    [ref \in DOMAIN h |->
        IF \E i \in DOMAIN individual : individual[i].position = ref
        THEN LET i == CHOOSE i \in DOMAIN individual : individual[i].position = ref
             IN MutatedPosition(h[ref], areas, m[i])
        ELSE h[ref]]

-----------------------------------------------------------------------------
(* optimizePlacement, step by step *)

GaVars == <<population, fitnessScores, nextPopulation, offspring, generation,
            bestFitness, bestIndividual>>

AppVars == <<uploadedFile, floorPlanData, currentStep, processing, parsing>>

OtherVars == <<corridorData, analysisResult, points, simplified, AppVars>>

\* optimizePlacement, line 67
CalculateUsableAreas ==
    /\ pc = "optimizePlacement"
    /\ usableAreas' = ExtractedAreas[floorPlan]
    /\ pc' = "initializePopulation"
    /\ UNCHANGED <<floorPlan, geneticConfig, heap, uuidSeed, GaVars, ilotData, firstRun, maxIterations, iter, corridorConfig, OtherVars>>

\* geneticAlgorithmOptimization, lines 376-378
InitializePopulation ==
    /\ pc = "initializePopulation"
    /\ LET seed == generateRandomConfiguration(usableAreas)
           n == Len(seed)
           Ref(k, i) == uuidSeed + (k - 1) * n + i
       IN /\ population' = [k \in 1..geneticConfig.populationSize |->
                               [i \in 1..n |-> [seed[i] EXCEPT !.id = Ref(k, i),
                                                               !.position = Ref(k, i)]]]
          /\ heap' = [ref \in (uuidSeed + 1)..(uuidSeed + geneticConfig.populationSize * n) |->
                         seed[((ref - uuidSeed - 1) % n) + 1].position]
          /\ uuidSeed' = uuidSeed + geneticConfig.populationSize * n
    /\ generation' = 0
    /\ bestFitness' = Num(0)
    /\ bestIndividual' = <<>>
    /\ fitnessScores' = <<>>
    /\ nextPopulation' = <<>>
    /\ offspring' = <<>>
    /\ pc' = "generation"
    /\ UNCHANGED <<floorPlan, geneticConfig, usableAreas, ilotData, firstRun, maxIterations, iter, corridorConfig, OtherVars>>

\* geneticAlgorithmOptimization, lines 380-404: evaluate, sort, track, elitism
EvaluateGeneration ==
    /\ pc = "generation"
    /\ generation < geneticConfig.maxGenerations
    /\ LET scores == SortByFitness([k \in DOMAIN population |->
                        [individual |-> population[k],
                         fitness |-> evaluateAdvancedFitness(floorPlan,
                                         Resolve(population[k], heap))]])
           improved == JsGreater(scores[1].fitness, bestFitness)
           eliteCount == (geneticConfig.populationSize * geneticConfig.elitismRate) \div 1000
       IN /\ fitnessScores' = scores
          /\ bestFitness' = IF improved THEN scores[1].fitness ELSE bestFitness
          /\ bestIndividual' = IF improved THEN scores[1].individual ELSE bestIndividual
          /\ nextPopulation' = [i \in 1..eliteCount |-> scores[i].individual]
    /\ pc' = "breed"
    /\ UNCHANGED <<floorPlan, geneticConfig, usableAreas, heap, uuidSeed, population,
                   offspring, generation, ilotData, firstRun, maxIterations, iter, corridorConfig, OtherVars>>

\* lines 407-416: two tournaments, then crossover or a copy of parent1
SelectAndCross ==
    /\ pc = "breed"
    /\ Len(nextPopulation) < geneticConfig.populationSize
    /\ \E t \in [1..6 -> CoinDraws], c \in CoinDraws :
         LET parent1 == tournamentSelection(fitnessScores, t[1], t[2], t[3])
             parent2 == tournamentSelection(fitnessScores, t[4], t[5], t[6])
         IN IF c < geneticConfig.crossoverRate
            THEN \E genes \in [1..Max(Len(parent1), Len(parent2)) -> CoinDraws] :
                     offspring' = crossover(parent1, parent2, genes)
            ELSE offspring' = parent1
    /\ pc' = "mutate"
    /\ UNCHANGED <<floorPlan, geneticConfig, usableAreas, heap, uuidSeed, population,
                   fitnessScores, nextPopulation, generation, bestFitness, bestIndividual,
                   ilotData, firstRun, maxIterations, iter, corridorConfig, OtherVars>>

\* lines 418-422: mutation in place, then the push to nextPopulation
MutateAndPush ==
    /\ pc = "mutate"
    /\ \E c \in CoinDraws :
         IF c < geneticConfig.mutationRate
         THEN \E m \in [DOMAIN offspring -> MutationDraws] :
                  heap' = mutate(offspring, usableAreas, heap, m)
         ELSE heap' = heap
    /\ nextPopulation' = Append(nextPopulation, offspring)
    /\ pc' = "breed"
    /\ UNCHANGED <<floorPlan, geneticConfig, usableAreas, uuidSeed, population, fitnessScores,
                   offspring, generation, bestFitness, bestIndividual, ilotData, firstRun, maxIterations, iter, corridorConfig,
                   OtherVars>>

\* line 425 and the loop increment
NextGeneration ==
    /\ pc = "breed"
    /\ ~(Len(nextPopulation) < geneticConfig.populationSize)
    /\ population' = nextPopulation
    /\ generation' = generation + 1
    /\ pc' = "generation"
    /\ UNCHANGED <<floorPlan, geneticConfig, usableAreas, heap, uuidSeed, fitnessScores,
                   nextPopulation, offspring, bestFitness, bestIndividual, ilotData,
                   firstRun, maxIterations, iter, corridorConfig, OtherVars>>

\* line 429 and optimizePlacement, lines 74-77
PostProcess ==
    /\ pc = "generation"
    /\ ~(generation < geneticConfig.maxGenerations)
    /\ ilotData' = postProcessConfiguration(Resolve(bestIndividual, heap))
    /\ pc' = "generateCorridors"
    /\ UNCHANGED <<floorPlan, geneticConfig, usableAreas, heap, uuidSeed, GaVars, firstRun, maxIterations, iter, corridorConfig,
                   OtherVars>>

-----------------------------------------------------------------------------
(* CorridorGenerator (main.tsx).  A generator g is [floorPlan, ilots, config]. *)
(* Identifiers of pathways are tuples that name where the pathway was made.    *)

DefaultCorridorConfig ==
    [width |-> 1200, minClearance |-> 600, maxLength |-> 15000, accessibility |-> TRUE]

NewGenerator(plan, ilots, config) == [floorPlan |-> plan, ilots |-> ilots, config |-> config]

\* "no pathway": the null of the source
Null == [id |-> <<"null">>]

\* CorridorGenerator.getIlotBounds
corridorIlotBounds(ilot) ==
    [left |-> ilot.position.x - ilot.width \div 2,
     right |-> ilot.position.x + ilot.width \div 2,
     top |-> ilot.position.y - ilot.height \div 2,
     bottom |-> ilot.position.y + ilot.height \div 2,
     center |-> ilot.position]

ccw(A, B, C) == (C.y - A.y) * (B.x - A.x) - (B.y - A.y) * (C.x - A.x)

segmentsIntersect(p1, p2, p3, p4) ==
    LET d1 == ccw(p3, p4, p1)
        d2 == ccw(p3, p4, p2)
        d3 == ccw(p1, p2, p3)
        d4 == ccw(p1, p2, p4)
    IN /\ ((d1 > 0 /\ d2 < 0) \/ (d1 < 0 /\ d2 > 0))
       /\ ((d3 > 0 /\ d4 < 0) \/ (d3 < 0 /\ d4 > 0))

segmentIntersectsPolygon(segment, polygon) ==
    \E i \in DOMAIN polygon :
        segmentsIntersect(segment.start, segment.end, polygon[i],
                          polygon[(i % Len(polygon)) + 1])

\* distance from a point to a segment, whole millimetres
distancePointToSegment(point, segStart, segEnd) == distancePointToLine(point, segStart, segEnd)

distanceSegmentToSegment(segment, wall) ==
    SetMin({distancePointToSegment(segment.start, wall.start, wall.end),
            distancePointToSegment(segment.end, wall.start, wall.end),
            distancePointToSegment(wall.start, segment.start, segment.end),
            distancePointToSegment(wall.end, segment.start, segment.end)})

intersectsWithWalls(g, segment) ==
    \E w \in DOMAIN g.floorPlan.walls :
        distanceSegmentToSegment(segment, g.floorPlan.walls[w]) < g.config.minClearance

intersectsWithRestrictedAreas(g, segment) ==
    \E a \in DOMAIN g.floorPlan.restrictedAreas :
        segmentIntersectsPolygon(segment, g.floorPlan.restrictedAreas[a].bounds)

\* the bounding box of a block grown by the 200 mm buffer
ExpandedBounds(ilot) ==
    LET bounds == corridorIlotBounds(ilot)
        buffer == 200
    IN RectPolygon(bounds.left - buffer, bounds.top - buffer,
                   bounds.right + buffer, bounds.bottom + buffer)

intersectsWithIlots(g, segment) ==
    \E i \in DOMAIN g.ilots : segmentIntersectsPolygon(segment, ExpandedBounds(g.ilots[i]))

Segments(path) == {[start |-> path[i], end |-> path[i + 1]] : i \in 1..(Len(path) - 1)}

isCorridorValid(g, path) ==
    \A segment \in Segments(path) :
        /\ ~intersectsWithWalls(g, segment)
        /\ ~intersectsWithRestrictedAreas(g, segment)
        /\ ~intersectsWithIlots(g, segment)

calculatePathLength(path) ==
    SeqSum([i \in 1..(Len(path) - 1) |-> calculateDistance(path[i], path[i + 1])])

areIlotsFacing(g, ilot1, ilot2) ==
    LET alignmentTolerance == 800
        maxDistance == 6000
        minDistance == 1500
        bounds1 == corridorIlotBounds(ilot1)
        bounds2 == corridorIlotBounds(ilot2)
        dx == bounds1.center.x - bounds2.center.x
        dy == bounds1.center.y - bounds2.center.y
        distSq == dx * dx + dy * dy
    IN IF distSq < minDistance * minDistance \/ distSq > maxDistance * maxDistance THEN "none"
       ELSE IF /\ Abs(dy) < alignmentTolerance
               /\ Abs(dx) >= g.config.width + 600
               /\ (\/ bounds1.right < bounds2.left - g.config.width
                   \/ bounds2.right < bounds1.left - g.config.width)
         THEN "horizontal"
       ELSE IF /\ Abs(dx) < alignmentTolerance
               /\ Abs(dy) >= g.config.width + 600
               /\ (\/ bounds1.bottom < bounds2.top - g.config.width
                   \/ bounds2.bottom < bounds1.top - g.config.width)
         THEN "vertical"
       ELSE "none"

\* pairs (i, j) of block indices, in the order of the two nested loops
findFacingIlotPairs(g) ==
    LET n == Len(g.ilots)
        all == [k \in 1..(n * n) |-> <<((k - 1) \div n) + 1, ((k - 1) % n) + 1>>]
    IN SelectSeq(all, LAMBDA p : p[1] < p[2] /\ areIlotsFacing(g, g.ilots[p[1]], g.ilots[p[2]]) # "none")

\* the path and length computed by createCorridorBetweenIlots before validation
FacingPath(g, ilot1, ilot2) ==
    LET bounds1 == corridorIlotBounds(ilot1)
        bounds2 == corridorIlotBounds(ilot2)
        leftFirst == bounds1.center.x < bounds2.center.x
        startX == IF leftFirst THEN bounds1.right ELSE bounds2.right
        endX == IF leftFirst THEN bounds2.left ELSE bounds1.left
        topFirst == bounds1.center.y < bounds2.center.y
        startY == IF topFirst THEN bounds1.bottom ELSE bounds2.bottom
        endY == IF topFirst THEN bounds2.top ELSE bounds1.top
        y == (bounds1.center.y + bounds2.center.y) \div 2
        x == (bounds1.center.x + bounds2.center.x) \div 2
    IN IF Abs(bounds1.center.y - bounds2.center.y) < 800
       THEN (IF Abs(endX - startX) >= g.config.width
             THEN [path |-> <<Pt(startX, y), Pt(endX, y)>>, length |-> Abs(endX - startX)]
             ELSE [path |-> <<>>, length |-> 0])
       ELSE IF Abs(bounds1.center.x - bounds2.center.x) < 800
       THEN (IF Abs(endY - startY) >= g.config.width
             THEN [path |-> <<Pt(x, startY), Pt(x, endY)>>, length |-> Abs(endY - startY)]
             ELSE [path |-> <<>>, length |-> 0])
       ELSE [path |-> <<>>, length |-> 0]

createCorridorBetweenIlots(g, ilot1, ilot2) ==
    LET made == FacingPath(g, ilot1, ilot2)
    IN IF Len(made.path) < 2 \/ ~isCorridorValid(g, made.path) THEN Null
       ELSE [id |-> <<"facing", ilot1.id, ilot2.id>>, path |-> made.path,
             width |-> g.config.width, type |-> "secondary", length |-> made.length,
             accessibility |-> g.config.accessibility]

\* generateCorridors, steps 1 and 2
FacingCorridors(g) ==
    LET pairs == findFacingIlotPairs(g)
        made == [k \in DOMAIN pairs |->
                    createCorridorBetweenIlots(g, g.ilots[pairs[k][1]], g.ilots[pairs[k][2]])]
    IN SelectSeq(made, LAMBDA c : c # Null)

\* findConnectedIlots: breadth-first search; region and queue hold block indices
RECURSIVE ConnectedFrom(_, _, _, _)
ConnectedFrom(g, region, queue, visited) ==
    IF queue = <<>> THEN [region |-> region, visited |-> visited]
    ELSE LET current == g.ilots[Head(queue)]
             proximityThreshold == 6000
             near == SelectSeq([k \in DOMAIN g.ilots |-> k],
                         LAMBDA k : /\ g.ilots[k].id \notin visited
                                    /\ calculateDistance(current.position, g.ilots[k].position)
                                           < proximityThreshold)
         IN ConnectedFrom(g, region \o near, Tail(queue) \o near,
                          visited \cup {g.ilots[near[k]].id : k \in DOMAIN near})

\* findConnectedIlots without the queue: the blocks near the start alone
findConnectedIlotsNearStart(g, start, visited) ==
    LET near == SelectSeq([k \in DOMAIN g.ilots |-> k],
                    LAMBDA k : /\ g.ilots[k].id \notin visited \cup {g.ilots[start].id}
                               /\ calculateDistance(g.ilots[start].position,
                                                    g.ilots[k].position) < 6000)
    IN [region |-> <<start>> \o near,
        visited |-> visited \cup {g.ilots[start].id}
                        \cup {g.ilots[near[k]].id : k \in DOMAIN near}]

findConnectedIlots(g, start, visited) ==
    ConnectedFrom(g, <<start>>, <<start>>, visited \cup {g.ilots[start].id})

RECURSIVE RegionsFrom(_, _, _)
RegionsFrom(g, i, visited) ==
    IF i > Len(g.ilots) THEN <<>>
    ELSE IF g.ilots[i].id \in visited THEN RegionsFrom(g, i + 1, visited)
    ELSE LET found == findConnectedIlots(g, i, visited)
         IN (IF Len(found.region) > 1 THEN <<found.region>> ELSE <<>>)
                \o RegionsFrom(g, i + 1, found.visited)

\* regions as sequences of block indices
groupIlotsByRegion(g) == RegionsFrom(g, 1, {})

calculateCentroid(pts) ==
    Pt(SeqSum([i \in DOMAIN pts |-> pts[i].x]) \div Len(pts),
       SeqSum([i \in DOMAIN pts |-> pts[i].y]) \div Len(pts))

createRegionSpine(g, region) ==
    IF Len(region) < 2 THEN Null
    ELSE LET positions == [k \in DOMAIN region |-> g.ilots[region[k]].position]
             centroid == calculateCentroid(positions)
             minX == SetMin({positions[k].x : k \in DOMAIN positions})
             maxX == SetMax({positions[k].x : k \in DOMAIN positions})
             minY == SetMin({positions[k].y : k \in DOMAIN positions})
             maxY == SetMax({positions[k].y : k \in DOMAIN positions})
             path == IF maxX - minX > maxY - minY
                     THEN <<Pt(minX - 1000, centroid.y), Pt(maxX + 1000, centroid.y)>>
                     ELSE <<Pt(centroid.x, minY - 1000), Pt(centroid.x, maxY + 1000)>>
         IN IF ~isCorridorValid(g, path) THEN Null
            ELSE [id |-> <<"spine", g.ilots[region[1]].id>>, path |-> path,
                  width |-> (g.config.width * 3) \div 2, type |-> "main",
                  length |-> calculatePathLength(path), accessibility |-> TRUE]

generateMainCirculationCorridors(g) ==
    LET regions == groupIlotsByRegion(g)
        spines == [k \in DOMAIN regions |->
                      IF Len(regions[k]) > 2 THEN createRegionSpine(g, regions[k]) ELSE Null]
    IN SelectSeq(spines, LAMBDA c : c # Null)

minimumDistanceToPath(point, path) ==
    SetMin({distancePointToSegment(point, path[i], path[i + 1]) : i \in 1..(Len(path) - 1)})

\* indices of the blocks within half a pathway width plus 100 mm of the path
findIlotsTouchingCorridor(g, corridor) ==
    LET touchThreshold == g.config.width \div 2 + 100
    IN {i \in DOMAIN g.ilots :
           Len(corridor.path) >= 2
           /\ minimumDistanceToPath(g.ilots[i].position, corridor.path) <= touchThreshold}

\* the point of segment (segStart, segEnd) closest to `point`
ClosestPointOnSegment(point, segStart, segEnd) ==
    LET A == point.x - segStart.x
        B == point.y - segStart.y
        C == segEnd.x - segStart.x
        D == segEnd.y - segStart.y
        dot == A * C + B * D
        lenSq == C * C + D * D
        permille == dot \div Max(1, lenSq \div 1000)
    IN IF lenSq = 0 \/ dot <= 0 THEN segStart
       ELSE IF dot >= lenSq THEN segEnd
       ELSE IF D = 0 THEN Pt(point.x, segStart.y)
       ELSE IF C = 0 THEN Pt(segStart.x, point.y)
       ELSE Pt(segStart.x + (permille * C) \div 1000, segStart.y + (permille * D) \div 1000)

RECURSIVE ClosestFrom(_, _, _, _, _)
ClosestFrom(point, path, i, closestPoint, minDistance) ==
    IF i > Len(path) - 1 THEN closestPoint
    ELSE LET segmentPoint == ClosestPointOnSegment(point, path[i], path[i + 1])
             distance == calculateDistance(point, segmentPoint)
         IN IF distance < minDistance
            THEN ClosestFrom(point, path, i + 1, segmentPoint, distance)
            ELSE ClosestFrom(point, path, i + 1, closestPoint, minDistance)

findClosestPointOnPath(point, path) ==
    ClosestFrom(point, path, 1, path[1], calculateDistance(point, path[1]))

createConnectionToCorridor(g, ilot, corridor) ==
    LET closestPoint == findClosestPointOnPath(ilot.position, corridor.path)
        dx == ilot.position.x - closestPoint.x
        dy == ilot.position.y - closestPoint.y
        path == <<ilot.position, closestPoint>>
    IN IF dx * dx + dy * dy > g.config.maxLength * g.config.maxLength THEN Null
       ELSE IF ~isCorridorValid(g, path) THEN Null
       ELSE [id |-> <<"connection", ilot.id, corridor.id>>, path |-> path,
             width |-> g.config.width, type |-> "secondary",
             length |-> calculateDistance(ilot.position, closestPoint),
             accessibility |-> g.config.accessibility]

createDirectConnection(g, ilot1, ilot2) ==
    LET dx == ilot1.position.x - ilot2.position.x
        dy == ilot1.position.y - ilot2.position.y
        path == <<ilot1.position, ilot2.position>>
    IN IF dx * dx + dy * dy > g.config.maxLength * g.config.maxLength THEN Null
       ELSE IF ~isCorridorValid(g, path) THEN Null
       ELSE [id |-> <<"direct", ilot1.id, ilot2.id>>, path |-> path,
             width |-> g.config.width, type |-> "secondary",
             length |-> calculateDistance(ilot1.position, ilot2.position),
             accessibility |-> g.config.accessibility]

\* the two forEach loops of findBestConnection over the candidates in order
RECURSIVE BestOf(_, _, _)
BestOf(candidates, i, best) ==
    IF i > Len(candidates) THEN best
    ELSE IF candidates[i] # Null /\ (best = Null \/ candidates[i].length < best.length)
      THEN BestOf(candidates, i + 1, candidates[i])
    ELSE BestOf(candidates, i + 1, best)

\* findBestConnection without the comparison of scores: the first candidate
\* that is not null
findBestConnectionFirstFound(g, isolatedIlot, existingCorridors, connectedIlots) ==
    LET toCorridors == [k \in DOMAIN existingCorridors |->
                           createConnectionToCorridor(g, isolatedIlot, existingCorridors[k])]
        connected == SelectSeq(g.ilots, LAMBDA ilot : ilot.id \in connectedIlots)
        toIlots == [k \in DOMAIN connected |->
                       createDirectConnection(g, isolatedIlot, connected[k])]
        found == SelectSeq(toCorridors \o toIlots, LAMBDA c : c # Null)
    IN IF found = <<>> THEN Null ELSE found[1]

findBestConnection(g, isolatedIlot, existingCorridors, connectedIlots) ==
    LET toCorridors == [k \in DOMAIN existingCorridors |->
                           createConnectionToCorridor(g, isolatedIlot, existingCorridors[k])]
        connected == SelectSeq(g.ilots, LAMBDA ilot : ilot.id \in connectedIlots)
        toIlots == [k \in DOMAIN connected |->
                       createDirectConnection(g, isolatedIlot, connected[k])]
    IN BestOf(toCorridors \o toIlots, 1, Null)

\* isolatedIlots.forEach of connectIsolatedIlots
RECURSIVE ConnectFrom(_, _, _, _, _)
ConnectFrom(g, existingCorridors, isolated, k, connectedIlots) ==
    IF k > Len(isolated) THEN <<>>
    ELSE LET connection == findBestConnection(g, isolated[k], existingCorridors, connectedIlots)
         IN IF connection # Null
            THEN <<connection>> \o ConnectFrom(g, existingCorridors, isolated, k + 1,
                                               connectedIlots \cup {isolated[k].id})
            ELSE ConnectFrom(g, existingCorridors, isolated, k + 1, connectedIlots)

connectIsolatedIlots(g, existingCorridors) ==
    LET connectedIlots ==
            {g.ilots[i].id : i \in UNION {findIlotsTouchingCorridor(g, existingCorridors[k])
                                           : k \in DOMAIN existingCorridors}}
        isolatedIlots == SelectSeq(g.ilots, LAMBDA ilot : ilot.id \notin connectedIlots)
    IN ConnectFrom(g, existingCorridors, isolatedIlots, 1, connectedIlots)

corridorsOverlap(corridor1, corridor2) ==
    \E i \in DOMAIN corridor1.path, j \in DOMAIN corridor2.path :
        2 * calculateDistance(corridor1.path[i], corridor2.path[j])
            < corridor1.width + corridor2.width

RECURSIVE RemoveRedundantFrom(_, _, _)
RemoveRedundantFrom(corridors, filtered, i) ==
    IF i > Len(corridors) THEN filtered
    ELSE LET isRedundant == \E k \in DOMAIN filtered :
                                /\ corridorsOverlap(corridors[i], filtered[k])
                                /\ filtered[k].type = "main"
                                /\ corridors[i].type = "secondary"
         IN RemoveRedundantFrom(corridors,
                IF isRedundant THEN filtered ELSE Append(filtered, corridors[i]), i + 1)

removeRedundantCorridors(corridors) == RemoveRedundantFrom(corridors, <<>>, 1)

\* the for loop of douglasPeucker: index (0-based) and distance of the farthest point
RECURSIVE FarthestFrom(_, _, _, _)
FarthestFrom(pts, i, index, maxDistance) ==
    IF i > Len(pts) - 2 THEN [index |-> index, maxDistance |-> maxDistance]
    ELSE LET distance == distancePointToSegment(pts[i + 1], pts[1], pts[Len(pts)])
         IN IF distance > maxDistance
            THEN FarthestFrom(pts, i + 1, i, distance)
            ELSE FarthestFrom(pts, i + 1, index, maxDistance)

RECURSIVE douglasPeucker(_, _)

\* variant of douglasPeucker whose base case ends at the last but one point
douglasPeuckerShort(pts, tolerance) ==
    IF Len(pts) <= 2 THEN pts
    ELSE LET far == FarthestFrom(pts, 1, 0, 0)
         IN IF far.maxDistance > tolerance
            THEN LET left == douglasPeucker(SubSeq(pts, 1, far.index + 1), tolerance)
                     right == douglasPeucker(SubSeq(pts, far.index + 1, Len(pts)), tolerance)
                 IN SubSeq(left, 1, Len(left) - 1) \o right
            ELSE <<pts[1], pts[Len(pts) - 1]>>

douglasPeucker(pts, tolerance) ==
    IF Len(pts) <= 2 THEN pts
    ELSE LET far == FarthestFrom(pts, 1, 0, 0)
         IN IF far.maxDistance > tolerance
            THEN LET left == douglasPeucker(SubSeq(pts, 1, far.index + 1), tolerance)
                     right == douglasPeucker(SubSeq(pts, far.index + 1, Len(pts)), tolerance)
                 IN SubSeq(left, 1, Len(left) - 1) \o right
            ELSE <<pts[1], pts[Len(pts)]>>

simplifyPath(pts) == IF Len(pts) <= 2 THEN pts ELSE douglasPeucker(pts, 100)

RECURSIVE FlatPaths(_)
FlatPaths(corridors) ==
    IF corridors = <<>> THEN <<>> ELSE Head(corridors).path \o FlatPaths(Tail(corridors))

mergeCorridor(primary, overlapping) ==
    LET allPoints == FlatPaths(<<primary>> \o overlapping)
        mergedWidth == SetMax({primary.width} \cup {overlapping[k].width : k \in DOMAIN overlapping})
        simplifiedPath == simplifyPath(allPoints)
    IN [id |-> <<"merged", primary.id>>, path |-> simplifiedPath, width |-> mergedWidth,
        type |-> IF primary.type = "main" THEN "main" ELSE "secondary",
        length |-> calculatePathLength(simplifiedPath),
        accessibility |-> primary.accessibility
                          /\ \A k \in DOMAIN overlapping : overlapping[k].accessibility]

RECURSIVE MergeFrom(_, _, _)
MergeFrom(corridors, i, processed) ==
    IF i > Len(corridors) THEN <<>>
    ELSE IF corridors[i].id \in processed THEN MergeFrom(corridors, i + 1, processed)
    ELSE LET corridor == corridors[i]
             overlapping == SelectSeq(corridors, LAMBDA other :
                                /\ other.id # corridor.id
                                /\ other.id \notin processed
                                /\ corridorsOverlap(corridor, other))
         IN IF Len(overlapping) > 0
            THEN <<mergeCorridor(corridor, overlapping)>>
                   \o MergeFrom(corridors, i + 1,
                          processed \cup {corridor.id}
                              \cup {overlapping[k].id : k \in DOMAIN overlapping})
            ELSE <<corridor>> \o MergeFrom(corridors, i + 1, processed \cup {corridor.id})

mergeOverlappingCorridors(corridors) == MergeFrom(corridors, 1, {})

optimizeCorridorNetwork(corridors) ==
    mergeOverlappingCorridors(removeRedundantCorridors(corridors))

generateCorridors(g) ==
    LET facing == FacingCorridors(g)
        withMain == facing \o generateMainCirculationCorridors(g)
        withConnections == withMain \o connectIsolatedIlots(g, withMain)
    IN optimizeCorridorNetwork(withConnections)

-----------------------------------------------------------------------------
(* CADAnalysisApp.processStep, step 2, and the pipeline as a state machine *)

PositiveInfinity == [nan |-> FALSE, val |-> 2147483647]

\* (sum of block areas / floorPlan.usableArea) * 100 as a JS number, in hundredths
SpaceUtilizationOf(plan, ilots) ==
    LET total == SeqSum([i \in DOMAIN ilots |-> ilots[i].area])
    IN IF plan.usableArea = 0
       THEN (IF total = 0 THEN NaN ELSE PositiveInfinity)
       ELSE Num(AreaPercent(total, plan.usableArea))

\* accessible blocks / blocks * 100 as a JS number, in hundredths
AccessibilityScoreOf(ilots) ==
    IF Len(ilots) = 0 THEN NaN
    ELSE Num((Cardinality({i \in DOMAIN ilots : ilots[i].accessibility}) * 10000)
                 \div Len(ilots))

ProcessStep2 ==
    /\ pc = "generateCorridors"
    /\ LET generator == NewGenerator(floorPlan, ilotData, corridorConfig)
           corridors == generateCorridors(generator)
       IN /\ corridorData' = corridors
          /\ analysisResult' =
                [spaceUtilization |-> SpaceUtilizationOf(floorPlan, ilotData),
                 accessibilityScore |-> AccessibilityScoreOf(ilotData),
                 clearanceCompliance |-> Num(9500),
                 totalIlots |-> Len(ilotData),
                 totalCorridorLength |-> SeqSum([k \in DOMAIN corridors |-> corridors[k].length]),
                 efficiency |-> Num(8800)]
    /\ pc' = "done"
    /\ UNCHANGED <<floorPlan, geneticConfig, usableAreas, heap, uuidSeed, GaVars, ilotData,
                   firstRun, maxIterations, iter, corridorConfig, points, simplified, AppVars>>

\* JS null in the state of CADAnalysisApp
NullData == [kind |-> "null", plan |-> 0, ilots |-> 0]

\* the state of CADAnalysisApp while only the library is exercised
AppIdle ==
    /\ uploadedFile = 0
    /\ floorPlanData = NullData
    /\ currentStep = 0
    /\ processing = FALSE
    /\ parsing = 0

\* value of firstRun before any run has returned
NotRun == <<"not run">>

NoResult == [spaceUtilization |-> Num(0), accessibilityScore |-> Num(0),
             clearanceCompliance |-> Num(0), totalIlots |-> 0,
             totalCorridorLength |-> 0, efficiency |-> Num(0)]

\* the budget CADAnalysisApp.processStep passes to optimizePlacement
AppBudget == 2000

\* budgets of a call: one below geneticConfig.maxGenerations, and the app's
Budgets == {MaxGenerations - 1, AppBudget}

InitOptimizer ==
    /\ pc = "optimizePlacement"
    /\ usableAreas = <<>>
    /\ heap = <<>>
    /\ uuidSeed = 0
    /\ population = <<>>
    /\ fitnessScores = <<>>
    /\ nextPopulation = <<>>
    /\ offspring = <<>>
    /\ generation = 0
    /\ bestFitness = Num(0)
    /\ bestIndividual = <<>>
    /\ ilotData = <<>>
    /\ corridorData = <<>>
    /\ analysisResult = NoResult
    /\ points = <<>>
    /\ simplified = <<>>
    /\ firstRun = NotRun
    /\ AppIdle

Init ==
    /\ floorPlan \in Plans
    /\ maxIterations \in Budgets
    /\ iter = 0
    /\ corridorConfig = DefaultCorridorConfig
    /\ geneticConfig = DefaultGeneticConfig(PopulationSize, MaxGenerations)
    /\ InitOptimizer

Next ==
    \/ CalculateUsableAreas
    \/ InitializePopulation
    \/ EvaluateGeneration
    \/ SelectAndCross
    \/ MutateAndPush
    \/ NextGeneration
    \/ PostProcess
    \/ ProcessStep2

Spec == Init /\ [][Next]_vars

-----------------------------------------------------------------------------
(* optimizePlacement called twice on the same floor plan *)

RepeatGenerations == 1

RepeatPlans == {PlanOpen, PlanSmall, PlanTiny}

\* the first call has returned; its result is kept and the second call starts
RunAgain ==
    /\ pc = "generateCorridors"
    /\ firstRun = NotRun
    /\ firstRun' = ilotData
    /\ pc' = "optimizePlacement"
    /\ UNCHANGED <<floorPlan, geneticConfig, usableAreas, heap, uuidSeed, GaVars, ilotData,
                   maxIterations, iter, corridorConfig, OtherVars>>

InitRepeat ==
    /\ floorPlan \in RepeatPlans
    /\ geneticConfig = DefaultGeneticConfig(PopulationSize, RepeatGenerations)
    /\ pc = "optimizePlacement"
    /\ usableAreas = <<>>
    /\ heap = <<>>
    /\ uuidSeed = 0
    /\ population = <<>>
    /\ fitnessScores = <<>>
    /\ nextPopulation = <<>>
    /\ offspring = <<>>
    /\ generation = 0
    /\ bestFitness = Num(0)
    /\ bestIndividual = <<>>
    /\ ilotData = <<>>
    /\ corridorData = <<>>
    /\ analysisResult = NoResult
    /\ points = <<>>
    /\ simplified = <<>>
    /\ firstRun = NotRun
    /\ AppIdle
    /\ maxIterations = AppBudget
    /\ iter = 0
    /\ corridorConfig = DefaultCorridorConfig

NextRepeat ==
    \/ CalculateUsableAreas
    \/ InitializePopulation
    \/ EvaluateGeneration
    \/ SelectAndCross
    \/ MutateAndPush
    \/ NextGeneration
    \/ PostProcess
    \/ RunAgain

SpecRepeat == InitRepeat /\ [][NextRepeat]_vars

-----------------------------------------------------------------------------
(* CorridorGenerator.generateCorridors, step by step, on regular layouts *)

MaxColumns == 3
MaxRows == 2

LayoutPitchX == {2500, 4000, 5000, 6000}
LayoutPitchY == {2900, 4000}

\* columns x rows blocks of the smallest size class, row by row
Layout(columns, rows, pitchX, pitchY) ==
    [k \in 1..(columns * rows) |->
        [NewIlot(Pt(3000 + ((k - 1) % columns) * pitchX,
                    3000 + ((k - 1) \div columns) * pitchY), 2000, 2500)
            EXCEPT !.id = k]]

\* a hall that holds every layout; the optional wall runs from edge to edge
\* midway between the first two columns
Hall(pitchX, walled) ==
    MakePlan("hall", 20000, 14000,
             IF walled THEN <<Wall(3000 + pitchX \div 2, 0, 3000 + pitchX \div 2, 14000, 100)>>
             ELSE <<>>,
             <<>>)

\* values of the maximum length field (CADAnalysisApp.tsx, lines 410-411)
\* shorter than the default
ShortLengths == {1500}

\* columns of the crowded layout
CrowdedColumns == 5

\* two rows of blocks whose centres are 1000 mm apart along x, so that
\* neighbours of a row overlap by half their width, as blocks returned by
\* optimizePlacement may
Crowded == Layout(CrowdedColumns, 2, 1000, 2900)

\* a regular layout and, for each row, one more block that overlaps the first
\* block of the row, 600 mm to the right of it
Annexed ==
    Layout(MaxColumns, MaxRows, 2500, 2900)
        \o [r \in 1..MaxRows |->
               [NewIlot(Pt(3600, 3000 + (r - 1) * 2900), 2000, 2500)
                   EXCEPT !.id = MaxColumns * MaxRows + r]]

Generator == NewGenerator(floorPlan, ilotData, corridorConfig)

CorridorRest == <<floorPlan, geneticConfig, usableAreas, heap, uuidSeed, GaVars, ilotData,
                  analysisResult, points, simplified, firstRun, maxIterations, iter, corridorConfig,
                  AppVars>>

\* generateCorridors, lines 41-50
FacingPairsStep ==
    /\ pc = "findFacingIlotPairs"
    /\ corridorData' = FacingCorridors(Generator)
    /\ pc' = "generateMainCirculationCorridors"
    /\ UNCHANGED CorridorRest

\* generateCorridors, lines 52-54
MainCirculationStep ==
    /\ pc = "generateMainCirculationCorridors"
    /\ corridorData' = corridorData \o generateMainCirculationCorridors(Generator)
    /\ pc' = "connectIsolatedIlots"
    /\ UNCHANGED CorridorRest

\* generateCorridors, lines 56-58
ConnectIsolatedStep ==
    /\ pc = "connectIsolatedIlots"
    /\ corridorData' = corridorData \o connectIsolatedIlots(Generator, corridorData)
    /\ pc' = "optimizeCorridorNetwork"
    /\ UNCHANGED CorridorRest

\* generateCorridors, lines 60-61
OptimizeNetworkStep ==
    /\ pc = "optimizeCorridorNetwork"
    /\ corridorData' = optimizeCorridorNetwork(corridorData)
    /\ pc' = "corridorsReturned"
    /\ UNCHANGED CorridorRest

InitCorridor ==
    /\ \/ \E columns \in 1..MaxColumns, rows \in 1..MaxRows,
             pitchX \in LayoutPitchX, pitchY \in LayoutPitchY, walled \in BOOLEAN :
             /\ floorPlan = Hall(pitchX, walled)
             /\ ilotData = Layout(columns, rows, pitchX, pitchY)
             /\ corridorConfig = DefaultCorridorConfig
       \/ /\ floorPlan = Hall(2500, FALSE)
          /\ ilotData = Crowded
          /\ corridorConfig = DefaultCorridorConfig
       \/ /\ floorPlan = Hall(2500, FALSE)
          /\ ilotData = Annexed
          /\ corridorConfig = DefaultCorridorConfig
       \/ \E pitchY \in LayoutPitchY, maxLength \in ShortLengths :
             /\ floorPlan = Hall(2500, FALSE)
             /\ ilotData = Layout(MaxColumns, MaxRows, 2500, pitchY)
             /\ corridorConfig = [DefaultCorridorConfig EXCEPT !.maxLength = maxLength]
    /\ geneticConfig = DefaultGeneticConfig(PopulationSize, MaxGenerations)
    /\ pc = "findFacingIlotPairs"
    /\ usableAreas = <<>>
    /\ heap = <<>>
    /\ uuidSeed = 0
    /\ population = <<>>
    /\ fitnessScores = <<>>
    /\ nextPopulation = <<>>
    /\ offspring = <<>>
    /\ generation = 0
    /\ bestFitness = Num(0)
    /\ bestIndividual = <<>>
    /\ corridorData = <<>>
    /\ analysisResult = NoResult
    /\ points = <<>>
    /\ simplified = <<>>
    /\ firstRun = NotRun
    /\ AppIdle
    /\ maxIterations = AppBudget
    /\ iter = 0

NextCorridor ==
    \/ FacingPairsStep
    \/ MainCirculationStep
    \/ ConnectIsolatedStep
    \/ OptimizeNetworkStep

SpecCorridor == InitCorridor /\ [][NextCorridor]_vars

-----------------------------------------------------------------------------
(* CorridorGenerator.simplifyPath on lists of points *)

MaxPoints == 4

\* side lengths 60 and 80 times the scale, so that every distance between two
\* of the five points, and from a point to a segment, is a whole number
Scales == {1, 2, 5}

Corners(scale) ==
    {Pt(0, 0), Pt(60 * scale, 0), Pt(60 * scale, 80 * scale), Pt(0, 80 * scale),
     Pt(30 * scale, 40 * scale)}

\* three points on one line whose mutual distances are not whole numbers
Collinear == {Pt(0, 0), Pt(3629, 1528), Pt(5263, 2216)}

PointLists ==
    UNION {[1..len -> Corners(scale)] : len \in 0..MaxPoints, scale \in Scales}
        \cup UNION {[1..len -> Collinear] : len \in 0..MaxPoints}

SimplifyPathStep ==
    /\ pc = "simplifyPath"
    /\ simplified' = simplifyPath(points)
    /\ pc' = "simplified"
    /\ UNCHANGED <<floorPlan, geneticConfig, usableAreas, heap, uuidSeed, GaVars, ilotData,
                   corridorData, analysisResult, points, firstRun, maxIterations, iter, corridorConfig, AppVars>>

InitSimplify ==
    /\ points \in PointLists
    /\ floorPlan = PlanOpen
    /\ geneticConfig = DefaultGeneticConfig(PopulationSize, MaxGenerations)
    /\ pc = "simplifyPath"
    /\ usableAreas = <<>>
    /\ heap = <<>>
    /\ uuidSeed = 0
    /\ population = <<>>
    /\ fitnessScores = <<>>
    /\ nextPopulation = <<>>
    /\ offspring = <<>>
    /\ generation = 0
    /\ bestFitness = Num(0)
    /\ bestIndividual = <<>>
    /\ ilotData = <<>>
    /\ corridorData = <<>>
    /\ analysisResult = NoResult
    /\ simplified = <<>>
    /\ firstRun = NotRun
    /\ AppIdle
    /\ maxIterations = AppBudget
    /\ iter = 0
    /\ corridorConfig = DefaultCorridorConfig

NextSimplify == SimplifyPathStep

SpecSimplify == InitSimplify /\ [][NextSimplify]_vars

-----------------------------------------------------------------------------
(* optimizePlacement with a population large enough to have an elite *)

\* Math.floor(populationSize * elitismRate) is 1 from a population of 5 on
ElitePopulation == 5

EliteGenerations == 1

\* number of leading blocks of an offspring that the draws let mutation move
EliteMoved == 2

\* the draws considered for the tournaments and the crossover: both parents
\* are the first-ranked configuration
EliteSelectAndCross ==
    /\ SelectAndCross
    /\ offspring' = fitnessScores[1].individual

\* the draws considered for mutation: the per-block test fails from block
\* EliteMoved + 1 on
EliteMutateAndPush ==
    /\ MutateAndPush
    /\ \A i \in DOMAIN offspring :
           i > EliteMoved => heap'[offspring[i].position] = heap[offspring[i].position]

InitElite ==
    /\ floorPlan = PlanOpen
    /\ maxIterations = AppBudget
    /\ iter = 0
    /\ corridorConfig = DefaultCorridorConfig
    /\ geneticConfig = DefaultGeneticConfig(ElitePopulation, EliteGenerations)
    /\ InitOptimizer

NextElite ==
    \/ CalculateUsableAreas
    \/ InitializePopulation
    \/ EvaluateGeneration
    \/ EliteSelectAndCross
    \/ EliteMutateAndPush
    \/ NextGeneration
    \/ PostProcess

SpecElite == InitElite /\ [][NextElite]_vars

-----------------------------------------------------------------------------
(* optimizeSpacing on two blocks, one iteration of its loop at a time.  The
   positions of the blocks are held in `points`, in micrometres. *)

\* where the second block lies from the first, along x and along y
SpacingOffsetsX == {0, 1200, 2000, 3000}

SpacingOffsetsY == {0, 1600, 4000}

SpacingBlocks(dx, dy) ==
    <<[NewIlot(Pt(3000, 3000), 2000, 2500) EXCEPT !.id = 1],
      [NewIlot(Pt(3000 + dx, 3000 + dy), 2000, 2500) EXCEPT !.id = 2]>>

\* lines 897-898: the copy of the list; the position objects are the blocks' own
SpacingStart ==
    /\ pc = "optimizeSpacing"
    /\ points' = [i \in DOMAIN ilotData |->
                     Pt(ilotData[i].position.x * 1000, ilotData[i].position.y * 1000)]
    /\ iter' = 0
    /\ pc' = "spacingIteration"
    /\ UNCHANGED <<floorPlan, geneticConfig, usableAreas, heap, uuidSeed, GaVars, ilotData,
                   corridorData, analysisResult, simplified, firstRun, maxIterations,
                   corridorConfig, AppVars>>

\* lines 900-909: one iteration of the loop
SpacingIteration ==
    /\ pc = "spacingIteration"
    /\ iter < 10
    /\ points' = SpacingPassFrom(points, 1)
    /\ iter' = iter + 1
    /\ UNCHANGED <<floorPlan, geneticConfig, pc, usableAreas, heap, uuidSeed, GaVars, ilotData,
                   corridorData, analysisResult, simplified, firstRun, maxIterations,
                   corridorConfig, AppVars>>

\* line 911: the blocks are returned with the positions written in the loop
SpacingReturn ==
    /\ pc = "spacingIteration"
    /\ ~(iter < 10)
    /\ ilotData' = [i \in DOMAIN ilotData |->
                       [ilotData[i] EXCEPT !.position = Pt((points[i].x + 500) \div 1000,
                                                           (points[i].y + 500) \div 1000)]]
    /\ pc' = "spaced"
    /\ UNCHANGED <<floorPlan, geneticConfig, usableAreas, heap, uuidSeed, GaVars, points, iter, corridorConfig,
                   corridorData, analysisResult, simplified, firstRun, maxIterations, AppVars>>

InitSpacing ==
    /\ \E dx \in SpacingOffsetsX, dy \in SpacingOffsetsY : ilotData = SpacingBlocks(dx, dy)
    /\ floorPlan = PlanOpen
    /\ geneticConfig = DefaultGeneticConfig(PopulationSize, MaxGenerations)
    /\ pc = "optimizeSpacing"
    /\ usableAreas = <<>>
    /\ heap = <<>>
    /\ uuidSeed = 0
    /\ population = <<>>
    /\ fitnessScores = <<>>
    /\ nextPopulation = <<>>
    /\ offspring = <<>>
    /\ generation = 0
    /\ bestFitness = Num(0)
    /\ bestIndividual = <<>>
    /\ corridorData = <<>>
    /\ analysisResult = NoResult
    /\ points = <<>>
    /\ simplified = <<>>
    /\ firstRun = NotRun
    /\ AppIdle
    /\ maxIterations = AppBudget
    /\ iter = 0
    /\ corridorConfig = DefaultCorridorConfig

NextSpacing ==
    \/ SpacingStart
    \/ SpacingIteration
    \/ SpacingReturn

SpecSpacing == InitSpacing /\ [][NextSpacing]_vars

-----------------------------------------------------------------------------
(* optimizeCorridorNetwork on given lists of pathways, its two calls one at a
   time *)

\* longest list of pathways given to optimizeCorridorNetwork
MaxCorridors == 3

\* two paths that meet within 500 mm at x = 4000, and one far from both
GivenPaths ==
    {<<Pt(0, 0), Pt(4000, 0)>>, <<Pt(4000, 500), Pt(8000, 500)>>,
     <<Pt(0, 6000), Pt(4000, 6000)>>}

GivenWidths == {1200, 1800}

GivenCorridors ==
    UNION {[1..len -> [path : GivenPaths, width : GivenWidths, type : {"main", "secondary"}]] :
               len \in 0..MaxCorridors}

\* optimizeCorridorNetwork, line 496
RemoveRedundantStep ==
    /\ pc = "removeRedundantCorridors"
    /\ corridorData' = removeRedundantCorridors(corridorData)
    /\ pc' = "mergeOverlappingCorridors"
    /\ UNCHANGED CorridorRest

\* optimizeCorridorNetwork, line 499
MergeOverlappingStep ==
    /\ pc = "mergeOverlappingCorridors"
    /\ corridorData' = mergeOverlappingCorridors(corridorData)
    /\ pc' = "networkOptimized"
    /\ UNCHANGED CorridorRest

InitCompaction ==
    /\ \E given \in GivenCorridors :
           corridorData = [k \in DOMAIN given |->
                              [id |-> <<"given", k>>, path |-> given[k].path,
                               width |-> given[k].width, type |-> given[k].type,
                               length |-> calculatePathLength(given[k].path),
                               accessibility |-> TRUE]]
    /\ floorPlan = PlanOpen
    /\ geneticConfig = DefaultGeneticConfig(PopulationSize, MaxGenerations)
    /\ pc = "removeRedundantCorridors"
    /\ usableAreas = <<>>
    /\ heap = <<>>
    /\ uuidSeed = 0
    /\ population = <<>>
    /\ fitnessScores = <<>>
    /\ nextPopulation = <<>>
    /\ offspring = <<>>
    /\ generation = 0
    /\ bestFitness = Num(0)
    /\ bestIndividual = <<>>
    /\ ilotData = <<>>
    /\ analysisResult = NoResult
    /\ points = <<>>
    /\ simplified = <<>>
    /\ firstRun = NotRun
    /\ AppIdle
    /\ maxIterations = AppBudget
    /\ iter = 0
    /\ corridorConfig = DefaultCorridorConfig

NextCompaction ==
    \/ RemoveRedundantStep
    \/ MergeOverlappingStep

SpecCompaction == InitCompaction /\ [][NextCompaction]_vars

-----------------------------------------------------------------------------
(* CorridorGenerator.generateCorridors on a pair of blocks: the second block  *)
(* is displaced from the first, the blocks are of one size, and the pathway   *)
(* width is one a caller of the constructor (the width field of the           *)
(* application, line 390 of CADAnalysisApp.tsx) may hand over.                *)

FacingWidths == {-600, 600, 1200}
FacingSizes == {<<600, 600>>, <<2000, 2500>>}
FacingOffsets == {0, 700, 800, 1400, 1450, 1800, 4000, 6000}

FacingBlocks(size, dx, dy) ==
    <<[NewIlot(Pt(3000, 3000), size[1], size[2]) EXCEPT !.id = 1],
      [NewIlot(Pt(3000 + dx, 3000 + dy), size[1], size[2]) EXCEPT !.id = 2]>>

InitFacing ==
    /\ \E size \in FacingSizes, dx \in FacingOffsets, dy \in FacingOffsets :
           ilotData = FacingBlocks(size, dx, dy)
    /\ \E w \in FacingWidths : corridorConfig = [DefaultCorridorConfig EXCEPT !.width = w]
    /\ floorPlan = Hall(2500, FALSE)
    /\ geneticConfig = DefaultGeneticConfig(PopulationSize, MaxGenerations)
    /\ pc = "findFacingIlotPairs"
    /\ usableAreas = <<>>
    /\ heap = <<>>
    /\ uuidSeed = 0
    /\ population = <<>>
    /\ fitnessScores = <<>>
    /\ nextPopulation = <<>>
    /\ offspring = <<>>
    /\ generation = 0
    /\ bestFitness = Num(0)
    /\ bestIndividual = <<>>
    /\ corridorData = <<>>
    /\ analysisResult = NoResult
    /\ points = <<>>
    /\ simplified = <<>>
    /\ firstRun = NotRun
    /\ AppIdle
    /\ maxIterations = AppBudget
    /\ iter = 0

NextFacing ==
    \/ FacingPairsStep
    \/ MainCirculationStep
    \/ ConnectIsolatedStep
    \/ OptimizeNetworkStep

SpecFacing == InitFacing /\ [][NextFacing]_vars

-----------------------------------------------------------------------------
(* IlotOptimizer.postProcessConfiguration, step by step, on a best            *)
(* configuration of three blocks of the smallest size class: the second and   *)
(* the third block are displaced from the first.                              *)

OverlapOffsetsX == {0, 1500, 2000, 2100, 3000, 4000}
OverlapOffsetsY == {0, 2600}

\* line 838
RemoveOverlappingStep ==
    /\ pc = "removeOverlappingIlots"
    /\ ilotData' = removeOverlappingIlots(Resolve(bestIndividual, heap))
    /\ pc' = "snapToGrid"
    /\ UNCHANGED <<floorPlan, geneticConfig, usableAreas, heap, uuidSeed, GaVars, firstRun,
                   maxIterations, iter, corridorConfig, OtherVars>>

\* line 841
SnapToGridStep ==
    /\ pc = "snapToGrid"
    /\ ilotData' = snapToGrid(ilotData, 100)
    /\ pc' = "optimizeSpacing"
    /\ UNCHANGED <<floorPlan, geneticConfig, usableAreas, heap, uuidSeed, GaVars, firstRun,
                   maxIterations, iter, corridorConfig, OtherVars>>

InitPostProcess ==
    /\ \E dx2 \in OverlapOffsetsX, dx3 \in OverlapOffsetsX, dy3 \in OverlapOffsetsY :
           /\ heap = <<Pt(3000, 3000), Pt(3000 + dx2, 3000), Pt(3000 + dx3, 3000 + dy3)>>
           /\ bestIndividual = [i \in 1..3 |-> [NewIlot(i, 2000, 2500) EXCEPT !.id = i]]
    /\ floorPlan = PlanOpen
    /\ geneticConfig = DefaultGeneticConfig(PopulationSize, MaxGenerations)
    /\ pc = "removeOverlappingIlots"
    /\ usableAreas = <<>>
    /\ uuidSeed = 0
    /\ population = <<>>
    /\ fitnessScores = <<>>
    /\ nextPopulation = <<>>
    /\ offspring = <<>>
    /\ generation = 0
    /\ bestFitness = Num(0)
    /\ ilotData = <<>>
    /\ corridorData = <<>>
    /\ analysisResult = NoResult
    /\ points = <<>>
    /\ simplified = <<>>
    /\ firstRun = NotRun
    /\ AppIdle
    /\ maxIterations = AppBudget
    /\ iter = 0
    /\ corridorConfig = DefaultCorridorConfig

NextPostProcess ==
    \/ RemoveOverlappingStep
    \/ SnapToGridStep
    \/ SpacingStart
    \/ SpacingIteration
    \/ SpacingReturn

SpecPostProcess == InitPostProcess /\ [][NextPostProcess]_vars

-----------------------------------------------------------------------------
(* One generation of geneticAlgorithmOptimization on a population of          *)
(* configurations of two blocks whose centres are in the middle of a usable   *)
(* area or 100 mm from its left or right edge.  The usable areas are one      *)
(* rectangle, or two rectangles 100 mm apart.                                 *)

MutatePopulation == 2

MutateStartsX == {100, 2000, 3900}

MutateAreas ==
    {<<RectPolygon(0, 0, 4000, 4100)>>,
     <<RectPolygon(0, 0, 4000, 4100), RectPolygon(4100, 0, 6350, 4100)>>}

InitMutate ==
    /\ usableAreas \in MutateAreas
    /\ \E x1 \in MutateStartsX, x2 \in MutateStartsX :
           heap = [ref \in 1..(2 * MutatePopulation) |->
                      Pt(IF ref % 2 = 1 THEN x1 ELSE x2, 2000)]
    /\ population = [k \in 1..MutatePopulation |->
                        [i \in 1..2 |-> [NewIlot((k - 1) * 2 + i, 2000, 2500)
                                            EXCEPT !.id = (k - 1) * 2 + i]]]
    /\ uuidSeed = 2 * MutatePopulation
    /\ floorPlan = PlanOpen
    /\ geneticConfig = DefaultGeneticConfig(MutatePopulation, 1)
    /\ pc = "generation"
    /\ fitnessScores = <<>>
    /\ nextPopulation = <<>>
    /\ offspring = <<>>
    /\ generation = 0
    /\ bestFitness = Num(0)
    /\ bestIndividual = <<>>
    /\ ilotData = <<>>
    /\ corridorData = <<>>
    /\ analysisResult = NoResult
    /\ points = <<>>
    /\ simplified = <<>>
    /\ firstRun = NotRun
    /\ AppIdle
    /\ maxIterations = AppBudget
    /\ iter = 0
    /\ corridorConfig = DefaultCorridorConfig

NextMutate ==
    \/ EvaluateGeneration
    \/ SelectAndCross
    \/ MutateAndPush
    \/ NextGeneration

SpecMutate == InitMutate /\ [][NextMutate]_vars

-----------------------------------------------------------------------------
(* optimizePlacement from line 70 on, and the rest of the pipeline, on the    *)
(* divided plan.  The wall and its clearance leave two usable areas, the      *)
(* rectangles that calculateAdvancedUsableAreas returns for the plan.         *)

DividedAreas ==
    <<RectPolygon(0, 0, 6300, 4100), RectPolygon(8950, 0, 15200, 4100)>>

InitSeed ==
    /\ floorPlan = PlanDivided
    /\ usableAreas = DividedAreas
    /\ pc = "initializePopulation"
    /\ maxIterations \in Budgets
    /\ iter = 0
    /\ corridorConfig = DefaultCorridorConfig
    /\ geneticConfig = DefaultGeneticConfig(PopulationSize, MaxGenerations)
    /\ heap = <<>>
    /\ uuidSeed = 0
    /\ population = <<>>
    /\ fitnessScores = <<>>
    /\ nextPopulation = <<>>
    /\ offspring = <<>>
    /\ generation = 0
    /\ bestFitness = Num(0)
    /\ bestIndividual = <<>>
    /\ ilotData = <<>>
    /\ corridorData = <<>>
    /\ analysisResult = NoResult
    /\ points = <<>>
    /\ simplified = <<>>
    /\ firstRun = NotRun
    /\ AppIdle

NextSeed ==
    \/ InitializePopulation
    \/ EvaluateGeneration
    \/ SelectAndCross
    \/ MutateAndPush
    \/ NextGeneration
    \/ PostProcess
    \/ ProcessStep2

SpecSeed == InitSeed /\ [][NextSeed]_vars

-----------------------------------------------------------------------------
(* geneticAlgorithmOptimization on the open hall with a population of more   *)
(* than one configuration, so that crossover has two different parents to    *)
(* draw from.                                                                 *)

BreedPopulation == 2

InitBreed ==
    /\ floorPlan = PlanOpen
    /\ maxIterations = AppBudget
    /\ iter = 0
    /\ corridorConfig = DefaultCorridorConfig
    /\ geneticConfig = DefaultGeneticConfig(BreedPopulation, EliteGenerations)
    /\ InitOptimizer

NextBreed ==
    \/ CalculateUsableAreas
    \/ InitializePopulation
    \/ EvaluateGeneration
    \/ SelectAndCross
    \/ MutateAndPush
    \/ NextGeneration

SpecBreed == InitBreed /\ [][NextBreed]_vars

-----------------------------------------------------------------------------
(* CADAnalysisApp: the orchestrating component.  Its stage outputs are kept
   as tokens that record which upload they were computed from: plan is the
   file whose floor plan was used (0 for the built-in fallback plan) and ilots
   the file whose plan the blocks were placed on. *)

\* number of distinct files the user can choose from
MaxFiles == 2

Files == 1..MaxFiles

AppLibraryVars ==
    <<floorPlan, geneticConfig, pc, usableAreas, heap, uuidSeed, GaVars, points, simplified,
      firstRun, maxIterations, iter, corridorConfig>>

\* handleFileUpload with a file of an accepted type or extension, but without
\* the setIlotData(null) call
handleFileUploadKeepsIlots(file) ==
    /\ uploadedFile' = file
    /\ currentStep' = 0
    /\ floorPlanData' = NullData
    /\ corridorData' = NullData
    /\ analysisResult' = NullData
    /\ UNCHANGED <<ilotData, processing, parsing, AppLibraryVars>>

\* handleFileUpload with a file of an accepted type or extension
handleFileUpload(file) ==
    /\ uploadedFile' = file
    /\ currentStep' = 0
    /\ floorPlanData' = NullData
    /\ ilotData' = NullData
    /\ corridorData' = NullData
    /\ analysisResult' = NullData
    /\ UNCHANGED <<processing, parsing, AppLibraryVars>>

AcceptedUpload == \E file \in Files : handleFileUpload(file)

\* handleFileUpload with no file chosen, or with one that is neither of an
\* accepted type nor of an accepted extension: nothing is set
RejectedUpload == UNCHANGED vars

\* the Extract button: processStep(0) up to its await of the parser
ExtractClicked ==
    /\ uploadedFile # 0
    /\ ~processing
    /\ processing' = TRUE
    /\ parsing' = uploadedFile
    /\ UNCHANGED <<uploadedFile, floorPlanData, currentStep, ilotData, corridorData,
                   analysisResult, AppLibraryVars>>

\* processStep(0) after the await: the parser has returned the plan of the file
\* or its fallback plan, or has thrown and the catch block builds the fallback
ExtractFinished ==
    /\ parsing # 0
    /\ \E plan \in {parsing, 0} :
           floorPlanData' = [kind |-> "floorPlan", plan |-> plan, ilots |-> 0]
    /\ currentStep' = 1
    /\ processing' = FALSE
    /\ parsing' = 0
    /\ UNCHANGED <<uploadedFile, ilotData, corridorData, analysisResult, AppLibraryVars>>

\* the Optimize button: processStep(1); optimizePlacement returns, or throws
\* and the catch block sets nothing
OptimizeClicked ==
    /\ floorPlanData # NullData
    /\ ~processing
    /\ \E returns \in BOOLEAN :
           IF uploadedFile # 0 /\ returns
           THEN /\ ilotData' = [kind |-> "ilots", plan |-> floorPlanData.plan, ilots |-> 0]
                /\ currentStep' = 2
           ELSE UNCHANGED <<ilotData, currentStep>>
    /\ UNCHANGED <<uploadedFile, floorPlanData, processing, parsing, corridorData,
                   analysisResult, AppLibraryVars>>

\* the Generate button: processStep(2)
GenerateClicked ==
    /\ ilotData # NullData
    /\ ~processing
    /\ IF uploadedFile # 0 /\ floorPlanData # NullData
       THEN /\ corridorData' = [kind |-> "corridors", plan |-> floorPlanData.plan,
                                ilots |-> ilotData.plan]
            /\ analysisResult' = [kind |-> "result", plan |-> floorPlanData.plan,
                                  ilots |-> ilotData.plan]
       ELSE UNCHANGED <<corridorData, analysisResult>>
    /\ UNCHANGED <<uploadedFile, floorPlanData, currentStep, processing, parsing, ilotData,
                   AppLibraryVars>>

InitApp ==
    /\ AppIdle
    /\ ilotData = NullData
    /\ corridorData = NullData
    /\ analysisResult = NullData
    /\ floorPlan = PlanOpen
    /\ geneticConfig = DefaultGeneticConfig(PopulationSize, MaxGenerations)
    /\ pc = "CADAnalysisApp"
    /\ usableAreas = <<>>
    /\ heap = <<>>
    /\ uuidSeed = 0
    /\ population = <<>>
    /\ fitnessScores = <<>>
    /\ nextPopulation = <<>>
    /\ offspring = <<>>
    /\ generation = 0
    /\ bestFitness = Num(0)
    /\ bestIndividual = <<>>
    /\ points = <<>>
    /\ simplified = <<>>
    /\ firstRun = NotRun
    /\ maxIterations = AppBudget
    /\ iter = 0
    /\ corridorConfig = DefaultCorridorConfig

NextApp ==
    \/ AcceptedUpload
    \/ RejectedUpload
    \/ ExtractClicked
    \/ ExtractFinished
    \/ OptimizeClicked
    \/ GenerateClicked

SpecApp == InitApp /\ [][NextApp]_vars

-----------------------------------------------------------------------------
(* Properties *)

\* optimizePlacement has returned (pipeline and repeated runs)
PlacementReturned == pc \in {"generateCorridors", "done"}

\* two bounding boxes share interior points
BoundingBoxesOverlap(ilot1, ilot2) ==
    LET bounds1 == getIlotBounds(ilot1)
        bounds2 == getIlotBounds(ilot2)
    IN /\ bounds1.left < bounds2.right /\ bounds2.left < bounds1.right
       /\ bounds1.top < bounds2.bottom /\ bounds2.top < bounds1.bottom

\* C1: the block list returned by optimizePlacement contains no two distinct
\* blocks whose axis-aligned bounding boxes overlap
C1_BlocksDisjoint ==
    PlacementReturned =>
        \A i, j \in DOMAIN ilotData :
            i < j => ~BoundingBoxesOverlap(ilotData[i], ilotData[j])

\* the point (x, y), given in half millimetres, lies in some usable-area rectangle
InsideUsableAreas(x, y) ==
    \E k \in DOMAIN usableAreas :
        LET b == calculateBounds(usableAreas[k])
        IN /\ 2 * b.minX <= x /\ x <= 2 * b.maxX
           /\ 2 * b.minY <= y /\ y <= 2 * b.maxY

\* C2: each block returned by optimizePlacement has all four corners of its
\* bounding box inside the union of the usable-area rectangles of that run
C2_BlocksInsideUsableAreas ==
    PlacementReturned =>
        \A i \in DOMAIN ilotData :
            LET b == getIlotBounds(ilotData[i])
            IN /\ InsideUsableAreas(b.left, b.top)
               /\ InsideUsableAreas(b.right, b.top)
               /\ InsideUsableAreas(b.left, b.bottom)
               /\ InsideUsableAreas(b.right, b.bottom)

\* generateCorridors has returned (step by step, or inside processStep)
CorridorsReturned == pc \in {"corridorsReturned", "done"}

\* sign of the turn a -> b -> c
Orientation(a, b, c) ==
    LET d == (b.x - a.x) * (c.y - a.y) - (b.y - a.y) * (c.x - a.x)
    IN IF d > 0 THEN 1 ELSE IF d < 0 THEN -1 ELSE 0

\* the open segments a-b and c-d cross in one point
SegmentsCross(a, b, c, d) ==
    /\ Orientation(a, b, c) * Orientation(a, b, d) < 0
    /\ Orientation(c, d, a) * Orientation(c, d, b) < 0

\* distance between two segments, whole millimetres: zero when they cross
SegmentDistance(a, b, c, d) ==
    IF SegmentsCross(a, b, c, d) THEN 0
    ELSE SetMin({distancePointToSegment(a, c, d), distancePointToSegment(b, c, d),
                 distancePointToSegment(c, a, b), distancePointToSegment(d, a, b)})

\* C3: every segment of every pathway returned by generateCorridors is at
\* distance >= minClearance from every wall; no returned segment crosses a wall
C3_PathwaysClearOfWalls ==
    CorridorsReturned =>
        \A k \in DOMAIN corridorData : \A segment \in Segments(corridorData[k].path) :
            \A w \in DOMAIN floorPlan.walls :
                SegmentDistance(segment.start, segment.end,
                                floorPlan.walls[w].start, floorPlan.walls[w].end)
                    >= DefaultCorridorConfig.minClearance

\* the segment crosses an edge of the polygon
CrossesPolygonEdge(segment, polygon) ==
    \E i \in DOMAIN polygon :
        SegmentsCross(segment.start, segment.end, polygon[i], polygon[(i % Len(polygon)) + 1])

\* C4: no segment of a pathway returned by generateCorridors crosses an edge of
\* a restricted area or of a block's bounding box expanded by 200 mm
C4_PathwaysClearOfBlocks ==
    CorridorsReturned =>
        \A k \in DOMAIN corridorData : \A segment \in Segments(corridorData[k].path) :
            /\ \A r \in DOMAIN floorPlan.restrictedAreas :
                   ~CrossesPolygonEdge(segment, floorPlan.restrictedAreas[r].bounds)
            /\ \A i \in DOMAIN ilotData :
                   ~CrossesPolygonEdge(segment, ExpandedBounds(ilotData[i]))

\* the layout is two blocks facing each other horizontally with nothing else
\* around: no wall, no restricted area, no third block
IsolatedFacingPair ==
    /\ Len(ilotData) = 2
    /\ floorPlan.walls = <<>>
    /\ floorPlan.restrictedAreas = <<>>
    /\ LET p1 == ilotData[1].position
           p2 == ilotData[2].position
           d == calculateDistance(p1, p2)
       IN /\ Abs(p1.y - p2.y) < 800
          /\ d >= 1500 /\ d <= 6000
          /\ corridorIlotBounds(ilotData[2]).left - corridorIlotBounds(ilotData[1]).right
                 >= DefaultCorridorConfig.width

\* C5: for two isolated blocks facing each other horizontally, facing-pair
\* synthesis accepts a secondary pathway that runs from the one facing edge to
\* the other and whose length is the edge-to-edge gap
C5_FacingPairGetsPathway ==
    (pc = "generateMainCirculationCorridors" /\ IsolatedFacingPair) =>
        LET right1 == corridorIlotBounds(ilotData[1]).right
            left2 == corridorIlotBounds(ilotData[2]).left
        IN \E k \in DOMAIN corridorData :
               LET c == corridorData[k]
               IN /\ c.type = "secondary"
                  /\ Len(c.path) >= 2
                  /\ {c.path[1].x, c.path[Len(c.path)].x} = {right1, left2}
                  /\ c.length = left2 - right1

\* C6: the spaceUtilization of the analysis result lies in [0, 100]
C6_SpaceUtilizationInRange ==
    pc = "done" =>
        /\ ~analysisResult.spaceUtilization.nan
        /\ analysisResult.spaceUtilization.val >= 0
        /\ analysisResult.spaceUtilization.val <= 10000

\* C7: two runs of optimizePlacement on the same floor plan return identical
\* block lists (same ids, positions, sizes, order)
C7_RunsReturnSameBlocks ==
    (pc = "generateCorridors" /\ firstRun # NotRun) => ilotData = firstRun

ExactDistances(pts) ==
    \A i, j \in DOMAIN pts :
        LET dx == pts[i].x - pts[j].x
            dy == pts[i].y - pts[j].y
        IN Sqrt(dx * dx + dy * dy) * Sqrt(dx * dx + dy * dy) = dx * dx + dy * dy

MarkedOf == [p \in Plans |-> MarkedCells(p)]

\* the block's bounding box shares interior points with the grid cell
BlockCoversCell(ilot, plan, cell) ==
    LET b == getIlotBounds(ilot)
        origin == calculateBounds(plan.bounds)
        cellLeft == 2 * (origin.minX + cell[1] * gridSize)
        cellTop == 2 * (origin.minY + cell[2] * gridSize)
    IN /\ b.left < cellLeft + 2 * gridSize /\ cellLeft < b.right
       /\ b.top < cellTop + 2 * gridSize /\ cellTop < b.bottom

\* C9: no block returned by optimizePlacement has a bounding box that
\* intersects a grid cell marked occupied by a wall or by a restricted area
C9_BlocksAvoidMarkedCells ==
    PlacementReturned =>
        \A i \in DOMAIN ilotData : \A cell \in MarkedOf[floorPlan] :
            ~BlockCoversCell(ilotData[i], floorPlan, cell)

\* a floor plan with zero walls, no restricted areas and bounds that are not
\* degenerate, after usable-area extraction
ZeroWallPlanExtracted ==
    /\ floorPlan.walls = <<>>
    /\ floorPlan.restrictedAreas = <<>>
    /\ floorPlan.totalArea > 0
    /\ pc \in {"initializePopulation", "generation", "breed", "mutate",
               "generateCorridors", "done"}

GridBounds(plan) ==
    LET b == calculateBounds(plan.bounds)
    IN [minX |-> b.minX, minY |-> b.minY,
        maxX |-> b.minX + CeilDiv(b.maxX - b.minX, gridSize) * gridSize,
        maxY |-> b.minY + CeilDiv(b.maxY - b.minY, gridSize) * gridSize]

NothingToSeed ==
    \A k \in DOMAIN usableAreas : ~(calculatePolygonArea(usableAreas[k]) > 20000000)

\* C11: when the extraction yields no region, or only regions too small to
\* seed a block, every individual of the genetic search is empty and
\* optimizePlacement returns an empty block list
C11_NothingToSeedGivesNoBlocks ==
    (NothingToSeed /\ pc \in {"generation", "breed", "mutate", "generateCorridors", "done"}) =>
        /\ \A k \in DOMAIN population : population[k] = <<>>
        /\ bestIndividual = <<>>
        /\ PlacementReturned => ilotData = <<>>

\* the search has run all its generations on a plan without any usable area
\* and optimizePlacement has returned
C11_Witness ==
    /\ pc = "generateCorridors"
    /\ usableAreas = <<>>
    /\ generation = geneticConfig.maxGenerations
    /\ ilotData = <<>>

\* a JS number that is defined (not NaN) and lies in [0, 100]; hundredths
IsPercentage(n) == ~n.nan /\ n.val >= 0 /\ n.val <= 10000

\* C12: when no block was placed the pipeline still assembles an analysis
\* result, and its percentage metrics are defined numbers in [0, 100]
C12_EmptyResultHasDefinedMetrics ==
    (pc = "done" /\ ilotData = <<>>) =>
        /\ analysisResult.totalIlots = 0
        /\ IsPercentage(analysisResult.accessibilityScore)
        /\ IsPercentage(analysisResult.spaceUtilization)
        /\ IsPercentage(analysisResult.clearanceCompliance)
        /\ IsPercentage(analysisResult.efficiency)

\* C13: a floor plan whose bounds have zero area is rejected before any stage
\* does work: the computation never moves past the entry of optimizePlacement
\* and no result, not even an empty one, is returned for it
C13_ZeroAreaBoundsRejected ==
    calculatePolygonArea(floorPlan.bounds) = 0 =>
        /\ pc = "optimizePlacement"
        /\ ilotData = <<>>
        /\ analysisResult = NoResult


\* every stage output of CADAnalysisApp is null
AllStagesNull ==
    /\ floorPlanData = NullData
    /\ ilotData = NullData
    /\ corridorData = NullData
    /\ analysisResult = NullData

\* a stage output is present only if the output of the stage before it is
StagesInOrder ==
    /\ analysisResult # NullData => corridorData # NullData
    /\ corridorData # NullData => ilotData # NullData
    /\ ilotData # NullData => floorPlanData # NullData

\* C14: in every reachable state of the orchestrator a present analysis result
\* implies present pathways, which imply present blocks, which imply a present
\* floor plan; and every accepted upload leaves all four null
C14_StagesInOrderAndUploadResets ==
    /\ []StagesInOrder
    /\ [][AcceptedUpload => AllStagesNull']_vars

\* a full analysis computed from the first file's plan, which was still being
\* parsed when the second file was uploaded
C14_Witness ==
    /\ analysisResult # NullData
    /\ analysisResult.plan = 1
    /\ uploadedFile = 2
    /\ StagesInOrder

\* C15: optimizePlacement returns, and when it has returned it has performed no
\* more generations than the iteration budget it was called with
C15_GenerationsWithinBudget ==
    PlacementReturned => generation <= maxIterations

\* C16: while the offspring of a generation are produced, the
\* floor(populationSize * elitismRate) best configurations stay at the head of
\* the next generation and the positions of their blocks do not change
C16_ElitesKeepPositions ==
    [][LET eliteCount == (geneticConfig.populationSize * geneticConfig.elitismRate) \div 1000
       IN pc \in {"breed", "mutate"} =>
              \A i \in 1..eliteCount :
                  Resolve(nextPopulation'[i], heap') = Resolve(nextPopulation[i], heap)]_vars

\* C17: as long as the same configuration is recorded as the best so far, up to
\* the return of geneticAlgorithmOptimization, the positions of its blocks are
\* the ones it was recorded with
C17_BestKeepsPositions ==
    [][bestIndividual' = bestIndividual =>
           Resolve(bestIndividual', heap') = Resolve(bestIndividual, heap)]_vars

\* distance between the centres of the two blocks held in `pos`, in whole
\* millimetres
CentreDistance(pos) ==
    Sqrt(((pos[1].x - pos[2].x) \div 1000) * ((pos[1].x - pos[2].x) \div 1000)
         + ((pos[1].y - pos[2].y) \div 1000) * ((pos[1].y - pos[2].y) \div 1000))

\* C18: one iteration of optimizeSpacing on two blocks at a centre distance
\* d > 0 leaves them at a centre distance d' with |d' - 2000| <= |d - 2000|
C18_PassApproachesOptimum ==
    [][(pc = "spacingIteration" /\ CentreDistance(points) > 0) =>
           Abs(CentreDistance(points') - 2000) <= Abs(CentreDistance(points) - 2000)]_vars

\* pathway i of the list is 'secondary' and overlaps a 'main' pathway of the list
OverlapsMain(corridors, i) ==
    /\ corridors[i].type = "secondary"
    /\ \E j \in DOMAIN corridors :
           corridors[j].type = "main" /\ corridorsOverlap(corridors[i], corridors[j])

OneGroup(corridors) ==
    /\ Len(corridors) >= 2
    /\ \A j \in 2..Len(corridors) : corridorsOverlap(corridors[1], corridors[j])

Square(r) == (-r..r) \X (-r..r)

\* C22: once the usable areas are extracted, every cell of the grid within
\* Chebyshev distance Math.ceil(1200 / gridSize) of a cell marked by a wall or a
\* restricted area is occupied
C22_ClearanceSquareOccupied ==
    pc # "optimizePlacement" =>
        LET b == calculateBounds(floorPlan.bounds)
            width == CeilDiv(b.maxX - b.minX, gridSize)
            height == CeilDiv(b.maxY - b.minY, gridSize)
            occupied == OccupiedCells(floorPlan)
        IN \A m \in MarkedOf[floorPlan], o \in Square(CeilDiv(1200, gridSize)) :
               <<m[1] + o[1], m[2] + o[2]>> \in GridCells(width, height)
                   => <<m[1] + o[1], m[2] + o[2]>> \in occupied

\* the classification of the first two blocks by areIlotsFacing
FacingOfPair == areIlotsFacing(Generator, ilotData[1], ilotData[2])

\* C23: once findFacingIlotPairs has run, a pair classified as horizontally
\* facing has centres less than 800 mm apart in y and between 1500 mm and
\* 6000 mm apart in x, a pair classified as vertically facing the same with
\* the axes exchanged, and two coincident blocks are not classified as facing
C23_FacingWithinTolerances ==
    (pc # "findFacingIlotPairs" /\ Len(ilotData) >= 2) =>
        LET dx == Abs(ilotData[1].position.x - ilotData[2].position.x)
            dy == Abs(ilotData[1].position.y - ilotData[2].position.y)
        IN /\ FacingOfPair = "horizontal" => (dy < 800 /\ dx >= 1500 /\ dx <= 6000)
           /\ FacingOfPair = "vertical" => (dx < 800 /\ dy >= 1500 /\ dy <= 6000)
           /\ (dx = 0 /\ dy = 0) => FacingOfPair = "none"

\* the blocks linked to the blocks of S by chains of blocks with consecutive
\* centre distances below 6000 mm
RECURSIVE ChainClosure(_, _)
ChainClosure(ilots, S) ==
    LET T == S \cup {j \in DOMAIN ilots :
                        \E i \in S :
                            (ilots[i].position.x - ilots[j].position.x)
                                    * (ilots[i].position.x - ilots[j].position.x)
                                + (ilots[i].position.y - ilots[j].position.y)
                                    * (ilots[i].position.y - ilots[j].position.y)
                                < 6000 * 6000}
    IN IF T = S THEN S ELSE ChainClosure(ilots, T)

SeqRange(q) == {q[k] : k \in DOMAIN q}

\* C24: once generateMainCirculationCorridors has run, two blocks are in one
\* region of groupIlotsByRegion exactly when a chain of blocks with consecutive
\* centre distances below 6000 mm links them, no block is in two regions or
\* twice in one, and the pathways of type 'main' are spines of regions of more
\* than two blocks, one per region at most, of width 1.5 times config.width
C24_RegionsAreComponents ==
    pc \in {"connectIsolatedIlots", "optimizeCorridorNetwork"} =>
        LET regions == groupIlotsByRegion(Generator)
            mains == SelectSeq(corridorData, LAMBDA c : c.type = "main")
        IN /\ \A i, j \in DOMAIN ilotData :
                  i # j => ((\E k \in DOMAIN regions :
                                {i, j} \subseteq SeqRange(regions[k]))
                            <=> j \in ChainClosure(ilotData, {i}))
           /\ \A k, l \in DOMAIN regions :
                  k # l => SeqRange(regions[k]) \cap SeqRange(regions[l]) = {}
           /\ \A k \in DOMAIN regions :
                  Cardinality(SeqRange(regions[k])) = Len(regions[k])
           /\ \A m \in DOMAIN mains :
                  /\ mains[m].width * 2 = corridorConfig.width * 3
                  /\ \E k \in DOMAIN regions :
                         /\ Len(regions[k]) > 2
                         /\ mains[m].id = <<"spine", ilotData[regions[k][1]].id>>
           /\ \A m, n \in DOMAIN mains : m # n => mains[m].id # mains[n].id

\* three columns 5000 mm apart in two rows: the outer columns are 10000 mm
\* apart and are in one region through the middle column; the region gets a
\* spine
C24_Witness ==
    /\ pc = "connectIsolatedIlots"
    /\ Len(ilotData) = 6
    /\ ilotData[3].position.x - ilotData[1].position.x = 10000
    /\ Len(groupIlotsByRegion(Generator)) = 1
    /\ \E m \in DOMAIN corridorData : corridorData[m].type = "main"

\* columns 6000 mm apart: each column of two blocks is a region of its own
\* and gets no spine
C24_WitnessApart ==
    /\ pc = "connectIsolatedIlots"
    /\ Len(ilotData) = 6
    /\ Len(groupIlotsByRegion(Generator)) = 3
    /\ \A m \in DOMAIN corridorData : corridorData[m].type # "main"

\* the pathways of steps 1 and 2 and the connections of step 3, once step 3
\* has run
IsConnection(c) == c.id[1] \in {"connection", "direct"}
ExistingCorridors == SelectSeq(corridorData, LAMBDA c : ~IsConnection(c))
Connections == SelectSeq(corridorData, LAMBDA c : IsConnection(c))

\* the block with the given identifier
IlotOfId(id) == ilotData[CHOOSE i \in DOMAIN ilotData : ilotData[i].id = id]

\* the lengths of the valid segments from block b to a pathway of steps 1 and 2
\* or to a block of the set `connected` of identifiers
CandidateLengths(b, connected) ==
    {calculateDistance(b.position, findClosestPointOnPath(b.position, ExistingCorridors[k].path)) :
         k \in {k \in DOMAIN ExistingCorridors :
                   isCorridorValid(Generator, <<b.position,
                       findClosestPointOnPath(b.position, ExistingCorridors[k].path)>>)}}
    \cup {calculateDistance(b.position, IlotOfId(o).position) :
              o \in {o \in connected : isCorridorValid(Generator, <<b.position,
                                                                   IlotOfId(o).position>>)}}

\* C25: once connectIsolatedIlots has run, every connection starts at the
\* centre of a block farther than width / 2 + 100 mm from every pathway of
\* steps 1 and 2, is of type 'secondary', is at most config.maxLength long, and
\* is not longer than any valid segment from the block to such a pathway, to a
\* block within that distance of one, or to a block connected before it
C25_ConnectionIsShortestValid ==
    pc = "optimizeCorridorNetwork" =>
        LET touching == {ilotData[i].id : i \in
                            UNION {findIlotsTouchingCorridor(Generator, ExistingCorridors[k])
                                      : k \in DOMAIN ExistingCorridors}}
        IN \A n \in DOMAIN Connections :
               LET c == Connections[n]
                   b == IlotOfId(c.id[2])
                   before == {Connections[m].id[2] : m \in 1..(n - 1)}
               IN /\ c.path[1] = b.position
                  /\ \A k \in DOMAIN ExistingCorridors :
                         2 * minimumDistanceToPath(b.position, ExistingCorridors[k].path)
                             > corridorConfig.width + 200
                  /\ c.type = "secondary"
                  /\ c.length <= corridorConfig.maxLength
                  /\ c.length = calculateDistance(c.path[1], c.path[2])
                  /\ c.length \in CandidateLengths(b, touching \cup before)
                  /\ \A len \in CandidateLengths(b, touching \cup before) : c.length <= len

\* overlapping blocks 1000 mm apart in a row: a connection to the neighbour
\* connected before is chosen over the spine 1450 mm away
C25_Witness ==
    /\ pc = "optimizeCorridorNetwork"
    /\ \E n \in DOMAIN Connections : Connections[n].id[1] = "direct"
    /\ \E n \in DOMAIN Connections : Connections[n].id[1] = "connection"

\* a spine farther away than the maximum length: no connection
C25_WitnessTooFar ==
    /\ pc = "optimizeCorridorNetwork"
    /\ corridorConfig.maxLength = 1500
    /\ ExistingCorridors # <<>>
    /\ Connections = <<>>

\* the blocks of `ilots` at the indices of K, in the order of `ilots`
SubSeqAt(ilots, K) ==
    LET indices == SelectSeq([i \in DOMAIN ilots |-> i], LAMBDA i : i \in K)
    IN [k \in DOMAIN indices |-> ilots[indices[k]]]

\* the configuration optimizePlacement hands to removeOverlappingIlots
BestConfiguration == Resolve(bestIndividual, heap)

\* C26: the list removeOverlappingIlots returns is its input restricted to a
\* set K of indices, in the order of the input; no two blocks of K overlap,
\* the first block is in K, and every block outside K overlaps a block of K
\* before it
C26_StableGreedyScan ==
    pc = "snapToGrid" =>
        LET input == BestConfiguration
        IN \E K \in SUBSET DOMAIN input :
               /\ ilotData = SubSeqAt(input, K)
               /\ \A i, j \in K : i # j => ~ilotsOverlap(input[i], input[j])
               /\ input # <<>> => 1 \in K
               /\ \A i \in DOMAIN input \ K :
                      \E k \in K : k < i /\ ilotsOverlap(input[i], input[k])

\* the second block overlaps the first and is dropped; the third overlaps the
\* second but not the first and is kept
C26_Witness ==
    /\ pc = "snapToGrid"
    /\ Len(BestConfiguration) = 3
    /\ ilotsOverlap(BestConfiguration[3], BestConfiguration[2])
    /\ Len(ilotData) = 2
    /\ ilotData[2] = BestConfiguration[3]

\* the point is inside one of the usable areas, as mutate tests it
InsideUsableArea(point) ==
    \E a \in DOMAIN usableAreas : pointInPolygon(point, usableAreas[a])

\* the point is in the rectangle of one of the usable areas
InUsableRectangle(point) ==
    \E a \in DOMAIN usableAreas :
        LET bounds == calculateBounds(usableAreas[a])
        IN /\ bounds.minX <= point.x /\ point.x <= bounds.maxX
           /\ bounds.minY <= point.y /\ point.y <= bounds.maxY

C27_WitnessStayed ==
    /\ pc = "breed"
    /\ Len(usableAreas) = 2
    /\ \E ref \in DOMAIN heap : heap[ref] = Pt(4140, 2000)

\* C28: a floor plan that is set was extracted from the file that is selected
\* (or is the fallback plan built for it), and the step counter is past the
\* extraction only then
C28_PlanIsOfSelectedFile ==
    /\ floorPlanData # NullData => floorPlanData.plan \in {uploadedFile, 0}
    /\ currentStep >= 1 => floorPlanData # NullData

\* the blocks of a configuration whose centres are in the rectangle of `area`,
\* as (position, width, height)
PlacedIn(ilots, area) ==
    LET bounds == calculateBounds(area)
        inside == SelectSeq(ilots, LAMBDA ilot :
                      /\ bounds.minX <= ilot.position.x /\ ilot.position.x <= bounds.maxX
                      /\ bounds.minY <= ilot.position.y /\ ilot.position.y <= bounds.maxY)
    IN [k \in DOMAIN inside |-> <<inside[k].position, inside[k].width, inside[k].height>>]

\* C29: in the population initializePopulation returns, the blocks of a
\* configuration that lie in a usable area are the blocks
\* generateRandomConfiguration places when that area is the only one
C29_SeedOfAreaIsItsOwn ==
    (pc = "generation" /\ generation = 0 /\ fitnessScores = <<>>) =>
        \A k \in DOMAIN usableAreas, n \in DOMAIN population :
            PlacedIn(Resolve(population[n], heap), usableAreas[k])
                = PlacedIn(generateRandomConfiguration(<<usableAreas[k]>>), usableAreas[k])

\* the configurations the genetic search holds: the population, the next
\* population under construction and the offspring about to be mutated
HeldConfigurations ==
    {population[k] : k \in DOMAIN population}
        \cup {nextPopulation[k] : k \in DOMAIN nextPopulation}
        \cup (IF pc = "mutate" THEN {offspring} ELSE {})

\* C30: from initializePopulation on, every configuration of the genetic search
\* has as many blocks as the seed layout, the block at each index has the
\* width, height, area and size class of the seed's block at that index, and
\* the ids of the blocks of one configuration are pairwise distinct
C30_ConfigurationsKeepSeedShape ==
    pc \notin {"optimizePlacement", "initializePopulation"} =>
        LET seed == generateRandomConfiguration(usableAreas)
        IN \A individual \in HeldConfigurations :
               /\ Len(individual) = Len(seed)
               /\ \A i \in DOMAIN individual :
                      /\ individual[i].width = seed[i].width
                      /\ individual[i].height = seed[i].height
                      /\ individual[i].area = seed[i].area
                      /\ individual[i].type = seed[i].type
               /\ \A i, j \in DOMAIN individual :
                      i # j => individual[i].id # individual[j].id

\* a configuration of the second generation that crossover has put together
\* from blocks of both configurations of the seed population
C30_Witness ==
    /\ generation >= 1
    /\ \E k \in DOMAIN population :
           /\ Len(population[k]) >= 2
           /\ \E i, j \in DOMAIN population[k] :
                  /\ population[k][i].id <= Len(population[k])
                  /\ population[k][j].id > Len(population[k])
====
